---- MODULE Spec2Model ----
(***************************************************************************)
(* Model of the research scripts of Community-AI-Governance-Research:      *)
(* the paginated, rate-limited fetch loops, the Eclipse worker pool, the   *)
(* report/summary steps and the entry points (main) that wrap them.        *)
(* One behaviour is one run of one script; Init chooses the script.        *)
(***************************************************************************)
EXTENDS Integers, Sequences, FiniteSets, TLC

(* ---------------------------------------------------------------------- *)
(* Bounds of the model                                                     *)
(* ---------------------------------------------------------------------- *)
\* value passed for the max_batches parameter of search_edit_summaries_2025
MaxBatches == 2
\* most requests the simulated remote API answers in one pagination loop
MaxCalls == MaxBatches + 1
\* most edits in one recentchanges page
MaxPageLen == 1

VARIABLES
    script,               \* which script's main() is running
    pc,                   \* position of that main()
    calls,                \* outbound HTTP requests issued so far
    okcalls,              \* requests that produced data
    slept,                \* a time.sleep has elapsed since the last request
    unslept,              \* a request was issued with no sleep since the one before
    console,              \* markers of what has been printed
    exit_code,            \* process exit code, -1 while running
    error,                \* the exception that ended or interrupted main(), or "none"
    \* wikipedia_policy_citation_analyzer.py
    batch_num, rccontinue, all_policies, ai_policies,
    total_edits_checked, edits_with_policies,
    \* the recentchanges requests so far: the rccontinue each one sent, and
    \* the kind, page size and continuation token of its response
    rc_log,
    \* mozilla_foundation_collector.py, get_github_org_repos
    page, repos,
    \* wikipedia_wikiproject_ai_analyzer.py
    batch_count, continue_token, wikiprojects, pop_i, top_projects,
    wp_i, wp_step, subpages, analysis, wikiproject_data,
    \* wikipedia_afd_ai_pattern_analyzer.py
    kw_i, seen_titles, all_discussions, afd_i, all_analyses,
    \* data['query']['search'] of each keyword's search so far (titles only)
    search_log,
    \* wikipedia_ai_discussions_analyzer.py
    dp_i, discussion_data, ai_proposals,
    \* wikipedia_specific_governance_analyzer.py
    gp_i, governance_pages_data,
    \* wikipedia_ai_enforcement_analyzer.py
    cs_i, article_list, art_i, art_step, edit_data, talk_data,
    \* eclipse_foundation_collector.py and apache_foundation_collector.py
    projects_data, task, result, projects, stats,
    \* the text functions: the text under analysis and what each call returned
    text, out,
    \* the file system (resolved path -> content), the saves of the runs of
    \* one script, and the working directory of the process
    files, runs, cwd,
    \* run_full_analysis.py: results of run_all_collectors, and what the
    \* comparison subprocess loaded
    collector_results, comparison,
    \* fsf_ecosystem_collector.py and osi_ecosystem_collector.py, and the
    \* totals print_summary showed
    gnu_projects, affiliates, licenses, summary,
    \* wikipedia_ai_enforcement_targeted_analyzer.py
    articles_found

polVars == <<batch_num, rccontinue, all_policies, ai_policies,
             total_edits_checked, edits_with_policies, rc_log>>
netVars == <<calls, okcalls, slept, unslept>>
mozVars == <<page, repos>>
wpVars == <<batch_count, continue_token, wikiprojects, pop_i, top_projects,
            wp_i, wp_step, subpages, analysis, wikiproject_data>>
afdVars == <<kw_i, seen_titles, all_discussions, afd_i, all_analyses, search_log>>
discVars == <<dp_i, discussion_data, ai_proposals>>
govVars == <<gp_i, governance_pages_data>>
enfVars == <<cs_i, article_list, art_i, art_step, edit_data, talk_data>>
collVars == <<projects_data, task, result, projects, stats>>
outVars == <<console, exit_code, error>>
txtVars == <<text, out>>
fsVars == <<files, runs, cwd>>
orchVars == <<collector_results, comparison>>
ecoVars == <<gnu_projects, affiliates, licenses, summary>>
tgtVars == <<articles_found>>
otherVars == <<fsVars, orchVars, ecoVars, tgtVars>>
vars == <<script, pc, netVars, outVars, polVars, mozVars, wpVars, afdVars,
          discVars, govVars, enfVars, collVars, txtVars, otherVars>>

\* what a step of one script leaves alone: the state of the other scripts
notPolicy == <<script, mozVars, wpVars, afdVars, discVars, govVars, enfVars, collVars, txtVars, otherVars>>
notMozilla == <<script, polVars, wpVars, afdVars, discVars, govVars, enfVars, collVars, txtVars, otherVars>>
notWikiProject == <<script, polVars, mozVars, afdVars, discVars, govVars, enfVars, collVars, txtVars, otherVars>>
notAfd == <<script, polVars, mozVars, wpVars, discVars, govVars, enfVars, collVars, txtVars, otherVars>>
notDiscussions == <<script, polVars, mozVars, wpVars, afdVars, govVars, enfVars, collVars, txtVars, otherVars>>
notGovernance == <<script, polVars, mozVars, wpVars, afdVars, discVars, enfVars, collVars, txtVars, otherVars>>
notEnforcement == <<script, polVars, mozVars, wpVars, afdVars, discVars, govVars, collVars, txtVars, otherVars>>
\* a call of a text function changes only pc and out
notText == <<script, text, netVars, outVars, polVars, mozVars, wpVars, afdVars, discVars,
            govVars, enfVars, collVars, otherVars>>
\* the state of the scripts above, for the scripts below
scriptVars == <<polVars, mozVars, wpVars, afdVars, discVars, govVars, enfVars,
                collVars, txtVars>>
notCollector == <<script, polVars, mozVars, wpVars, afdVars, discVars, govVars, enfVars, txtVars, otherVars>>

(* ---------------------------------------------------------------------- *)
(* collections.Counter: keys in insertion order with their counts          *)
(* ---------------------------------------------------------------------- *)
CounterKeys(c) == {c[i].k : i \in 1..Len(c)}

CounterGet(c, key) ==
    IF key \in CounterKeys(c)
    THEN (CHOOSE i \in 1..Len(c) : c[i].k = key)
    ELSE 0

CounterCount(c, key) ==
    IF CounterGet(c, key) = 0 THEN 0 ELSE c[CounterGet(c, key)].n

\* c[key] += 1
CounterInc(c, key) ==
    IF CounterGet(c, key) = 0
    THEN Append(c, [k |-> key, n |-> 1])
    ELSE [c EXCEPT ![CounterGet(c, key)].n = @ + 1]

RECURSIVE CounterTotal(_)
\* sum(c.values())
CounterTotal(c) ==
    IF c = <<>> THEN 0 ELSE Head(c).n + CounterTotal(Tail(c))

(* ---------------------------------------------------------------------- *)
(* The outbound request bookkeeping shared by every script                 *)
(* ---------------------------------------------------------------------- *)
\* requests.get / session.get; gotData says the response carried data;
\* sleepsAfter says the code path runs time.sleep before its next request
Request(gotData, sleepsAfter) ==
    /\ calls' = calls + 1
    /\ okcalls' = IF gotData THEN okcalls + 1 ELSE okcalls
    /\ unslept' = (unslept \/ (calls > 0 /\ ~slept))
    /\ slept' = sleepsAfter

\* an exception leaves a main() that has no try: the interpreter prints the
\* traceback and the process exits with code 1
Uncaught(exc) ==
    /\ pc' = "crashed"
    /\ error' = exc
    /\ console' = console \cup {"traceback"}
    /\ exit_code' = 1

\* an exception reaches the `except Exception` of a main() with a try: it
\* prints "Analysis failed: ..." and the traceback, then main() returns
Caught(exc) ==
    /\ pc' = "done"
    /\ error' = exc
    /\ console' = console \cup {"analysis_failed", "traceback"}
    /\ exit_code' = 0

\* main() returns: the process exits with code 0
Returns(printed) ==
    /\ pc' = "done"
    /\ console' = console \cup printed
    /\ exit_code' = 0
    /\ UNCHANGED error

\* main() goes on to its next step after printing
GoesOn(next, printed) ==
    /\ pc' = next
    /\ console' = console \cup printed
    /\ UNCHANGED <<exit_code, error>>

(* ---------------------------------------------------------------------- *)
(* wikipedia_policy_citation_analyzer.py                                   *)
(* ---------------------------------------------------------------------- *)
\* citations POLICY_PATTERN can find in an edit summary (already upper-cased)
PolicyLabels == {"WP:V", "WP:LLM", "WIKIPEDIA:AI-GENERATED"}
\* the number of AI_POLICY_PATTERNS that re.search finds in the citation:
\* 'WP:LLM' alone for WP:LLM, 'Wikipedia:AI' and
\* 'Wikipedia:AI[-_]generated' for Wikipedia:AI-generated
AIPatternMatches(p) ==
    CASE p = "WP:LLM" -> 1
      [] p = "WIKIPEDIA:AI-GENERATED" -> 2
      [] OTHER -> 0
\* AI_POLICY_PATTERNS matches the citation
IsAIPolicy(p) == AIPatternMatches(p) > 0

\* the citations re.findall returns for one edit summary; <<>> is a comment
\* without citation (or no comment)
Comments == {<<>>, <<"WP:V">>, <<"WP:LLM">>, <<"WP:V", "WP:LLM">>,
             <<"WIKIPEDIA:AI-GENERATED">>}

RECURSIVE SeqsUpTo(_, _)
SeqsUpTo(S, n) ==
    IF n = 0 THEN {<<>>}
    ELSE LET shorter == SeqsUpTo(S, n - 1)
         IN shorter \cup {Append(s, x) : s \in shorter, x \in S}

Tokens == 1..2

\* what the API can answer to one recentchanges request
RcResponses ==
    [kind : {"exception"}, changes : {<<>>}, cont : {0}]
    \cup [kind : {"ok"}, changes : SeqsUpTo(Comments, MaxPageLen), cont : {0} \cup Tokens]

RECURSIVE CounterAdd(_, _, _)
\* c[key] += 1, n times
CounterAdd(c, key, n) ==
    IF n = 0 THEN c ELSE CounterAdd(CounterInc(c, key), key, n - 1)

RECURSIVE CountCitations_without_break(_, _, _)
\* a variant of lines 93-102 whose loop over AI_POLICY_PATTERNS goes on
\* after the first pattern that matches
CountCitations_without_break(policies, all, ai) ==
    IF policies = <<>> THEN <<all, ai>>
    ELSE LET p == Head(policies)
         IN CountCitations_without_break(Tail(policies), CounterInc(all, p),
                                         CounterAdd(ai, p, AIPatternMatches(p)))

RECURSIVE CountCitations(_, _, _)
\* lines 93-102 for one comment: tally is <<all_policies, ai_policies>>
CountCitations(policies, all, ai) ==
    IF policies = <<>> THEN <<all, ai>>
    ELSE LET p == Head(policies)
         IN CountCitations(Tail(policies), CounterInc(all, p),
                           IF IsAIPolicy(p) THEN CounterInc(ai, p) ELSE ai)

RECURSIVE ProcessBatch_counts_cited_only(_, _)
\* a variant of lines 80-102 that counts an edit only when its summary
\* cites a policy
ProcessBatch_counts_cited_only(changes, st) ==
    IF changes = <<>> THEN st
    ELSE LET comment == Head(changes)
             tally == CountCitations(comment, st.all, st.ai)
         IN ProcessBatch_counts_cited_only(Tail(changes),
               [all |-> tally[1], ai |-> tally[2],
                checked |-> IF comment # <<>> THEN st.checked + 1 ELSE st.checked,
                withpol |-> IF comment # <<>> THEN st.withpol + 1 ELSE st.withpol])

RECURSIVE ProcessBatch(_, _)
\* lines 80-102: fold the changes of one page into the four counters
ProcessBatch(changes, st) ==
    IF changes = <<>> THEN st
    ELSE LET comment == Head(changes)
             tally == CountCitations(comment, st.all, st.ai)
         IN ProcessBatch(Tail(changes),
               [all |-> tally[1], ai |-> tally[2],
                checked |-> st.checked + 1,
                withpol |-> IF comment # <<>> THEN st.withpol + 1 ELSE st.withpol])

\* one pass of the while loop of search_edit_summaries_2025
search_edit_summaries_2025_batch(resp) ==
    /\ script = "policy" /\ pc = "search"
    /\ batch_num < MaxBatches
    /\ batch_num' = batch_num + 1
    /\ LET st == ProcessBatch(resp.changes,
                    [all |-> all_policies, ai |-> ai_policies,
                     checked |-> total_edits_checked,
                     withpol |-> edits_with_policies])
           continues == resp.kind = "ok" /\ resp.changes # <<>> /\ resp.cont # 0
       IN /\ Request(resp.kind = "ok" /\ resp.changes # <<>>, continues)
          /\ IF resp.kind = "ok" /\ resp.changes # <<>>
             THEN /\ all_policies' = st.all
                  /\ ai_policies' = st.ai
                  /\ total_edits_checked' = st.checked
                  /\ edits_with_policies' = st.withpol
             ELSE UNCHANGED <<all_policies, ai_policies, total_edits_checked,
                              edits_with_policies>>
          /\ rccontinue' = IF continues THEN resp.cont ELSE rccontinue
          /\ rc_log' = Append(rc_log, [sent |-> rccontinue, kind |-> resp.kind,
                                       n |-> Len(resp.changes), cont |-> resp.cont])
          /\ pc' = IF continues THEN "search" ELSE "print"
    /\ UNCHANGED <<outVars, notPolicy>>

\* the while condition fails: return the counters
search_edit_summaries_2025_ceiling ==
    /\ script = "policy" /\ pc = "search"
    /\ batch_num >= MaxBatches
    /\ pc' = "print"
    /\ UNCHANGED <<netVars, outVars, polVars, notPolicy>>

\* print_results: "returned" or the exception it raises
print_results_outcome(total_edits, total_policy_citations, unique_policies) ==
    IF total_edits = 0 THEN "returned"
    ELSE IF unique_policies = 0 THEN "ZeroDivisionError"
    ELSE "returned"

\* main() of the policy citation analyzer: print_results, then the save
policy_print_results ==
    /\ script = "policy" /\ pc = "print"
    /\ LET r == print_results_outcome(total_edits_checked,
                    CounterTotal(all_policies), Len(all_policies))
       IN IF r = "returned"
          THEN GoesOn("save", {"summary"})
          ELSE Uncaught(r)
    /\ UNCHANGED <<netVars, polVars, notPolicy>>

policy_save(writeOk) ==
    /\ script = "policy" /\ pc = "save"
    /\ IF writeOk
       THEN Returns({"saved_path", "complete"})
       ELSE Uncaught("OSError")
    /\ UNCHANGED <<netVars, polVars, notPolicy>>

(* ---------------------------------------------------------------------- *)
(* mozilla_foundation_collector.py: get_github_org_repos                   *)
(* ---------------------------------------------------------------------- *)
GhResponses == {"404", "error_status", "exception", "empty", "page"}

\* one pass of the `while True` loop of get_github_org_repos
get_github_org_repos_page(kind) ==
    /\ script = "mozilla" /\ pc = "fetch_repos"
    /\ calls < MaxCalls
    /\ Request(kind = "page", kind = "page")
    /\ IF kind = "page"
       THEN /\ repos' = Append(repos, page)
            /\ page' = page + 1
            /\ UNCHANGED pc
       ELSE /\ pc' = "returned"
            /\ UNCHANGED <<page, repos>>
    /\ UNCHANGED <<outVars, notMozilla>>

(* ---------------------------------------------------------------------- *)
(* wikipedia_wikiproject_ai_analyzer.py                                    *)
(* ---------------------------------------------------------------------- *)
\* value passed for the limit parameter of analyze_all_wikiprojects
Limit == 1
\* titles per popularity request (range step and slice width)
TitlesPerRequest == 50
\* most subpages one allpages answer lists for a WikiProject
MaxSubpages == 1

\* an allpages answer lists a main WikiProject page or a subpage (title with '/')
ApResponses ==
    [kind : {"exception"}, allpages : {<<>>}, cont : {0}]
    \cup [kind : {"ok"}, allpages : {<<>>, <<"main">>, <<"sub">>}, cont : {0, 1}]

Min(a, b) == IF a < b THEN a ELSE b

RECURSIVE InsertDesc(_, _)
\* insert pair <<key, value>> after every pair whose key is >= its key
InsertDesc(sorted, pair) ==
    IF sorted = <<>> THEN <<pair>>
    ELSE IF Head(sorted)[1] >= pair[1]
         THEN <<Head(sorted)>> \o InsertDesc(Tail(sorted), pair)
         ELSE <<pair>> \o sorted

RECURSIVE SortDescPairs(_, _)
SortDescPairs(pairs, sorted) ==
    IF pairs = <<>> THEN sorted
    ELSE SortDescPairs(Tail(pairs), InsertDesc(sorted, Head(pairs)))

\* a variant that sorts ascending and reverses the result: equal keys come
\* out in the reverse of their order
SortDescReversed(pairs) ==
    LET rev == [i \in 1..Len(pairs) |-> pairs[Len(pairs) + 1 - i]]
        r == SortDescPairs(rev, <<>>)
    IN [i \in 1..Len(r) |-> r[i][2]]

\* list.sort(key=..., reverse=True) / sorted(..., reverse=True): stable,
\* equal keys keep their order; pairs are <<key, value>>, the values return
SortDescStable(pairs) ==
    LET r == SortDescPairs(pairs, <<>>)
    IN [i \in 1..Len(r) |-> r[i][2]]

\* subset[:n]
Take(s, n) == SubSeq(s, 1, Min(n, Len(s)))

\* one pass of the allpages `while True` loop of get_popular_wikiprojects;
\* an exception anywhere in the function returns []
get_popular_wikiprojects_batch(resp) ==
    /\ script = "wikiproject" /\ pc = "paginate"
    /\ calls < MaxCalls
    /\ batch_count' = batch_count + 1
    /\ Request(resp.kind = "ok", resp.kind = "ok" /\ resp.cont # 0)
    /\ IF resp.kind = "exception"
       THEN /\ top_projects' = <<>>
            /\ pc' = "report"
            /\ wikiprojects' = <<>>
            /\ continue_token' = 0
       ELSE /\ wikiprojects' =
                 wikiprojects \o
                 [i \in 1..Len(SelectSeq(resp.allpages, LAMBDA t : t = "main")) |->
                     [pageid |-> batch_count + 1, watchers |-> 0]]
            /\ continue_token' = IF resp.cont # 0 THEN batch_count + 1 ELSE continue_token
            /\ pc' = IF resp.cont # 0 THEN "paginate" ELSE "popularity"
            /\ UNCHANGED top_projects
    /\ UNCHANGED <<pop_i, wp_i, wp_step, subpages, analysis, wikiproject_data,
                   outVars, notWikiProject>>

\* one pass of the popularity loop: watched are the positions whose page
\* comes back with watchers = 1
get_popular_wikiprojects_popularity(kind, watched) ==
    /\ script = "wikiproject" /\ pc = "popularity"
    /\ pop_i < Len(wikiprojects)
    /\ LET last == Min(pop_i + TitlesPerRequest, Len(wikiprojects))
       IN /\ watched \subseteq (pop_i + 1)..last
          /\ kind # "ok" => watched = {}
          /\ Request(kind = "ok", kind # "exception")
          /\ IF kind = "exception"
             THEN /\ top_projects' = <<>>
                  /\ pc' = "report"
                  /\ wikiprojects' = <<>>
                  /\ UNCHANGED pop_i
             ELSE /\ wikiprojects' =
                       [i \in 1..Len(wikiprojects) |->
                          IF kind = "ok" /\ i \in (pop_i + 1)..last
                          THEN [wikiprojects[i] EXCEPT
                                  !.watchers = IF i \in watched THEN 1 ELSE 0]
                          ELSE wikiprojects[i]]
                  /\ pop_i' = pop_i + TitlesPerRequest
                  /\ UNCHANGED <<top_projects, pc>>
    /\ UNCHANGED <<batch_count, continue_token, wp_i, wp_step, subpages, analysis,
                   wikiproject_data, outVars, notWikiProject>>

\* the end of get_popular_wikiprojects (sort by watchers, take the top) and
\* the emptiness test of analyze_all_wikiprojects; the locals of a function
\* that has returned are cleared
get_popular_wikiprojects_return ==
    /\ script = "wikiproject" /\ pc = "popularity"
    /\ pop_i >= Len(wikiprojects)
    /\ LET sorted == SortDescStable([i \in 1..Len(wikiprojects) |->
                          <<wikiprojects[i].watchers, wikiprojects[i]>>])
       IN /\ wikiprojects' = <<>>
          /\ top_projects' = Take(sorted, Limit)
          /\ pc' = IF Take(sorted, Limit) = <<>> THEN "report" ELSE "analyze"
    /\ UNCHANGED <<batch_count, continue_token, pop_i, wp_i, wp_step, subpages,
                   analysis, wikiproject_data, netVars, outVars,
                   notWikiProject>>

\* what get_page_content yields for the analysis: NoPage (None, or a page
\* without wikitext), or the AI reference count of its wikitext
NoPage == -1
PageResults == {NoPage, 0, 1}
\* a subpage title: matches no keyword list, the guideline/policy list only,
\* or that list and the dedicated-AI-policy list
SubpageKinds == {"other", "guideline", "ai_policy"}

\* analyze_wikiproject, lines 284-311: the main page, then the sleep
analyze_wikiproject_main_page(res) ==
    /\ script = "wikiproject" /\ pc = "analyze" /\ wp_step = "main_page"
    /\ Request(res # NoPage, TRUE)
    /\ analysis' = [title |-> top_projects[wp_i].pageid,
                    total_ai_references |-> IF res = NoPage THEN 0 ELSE res,
                    ai_policy_pages |-> 0,
                    has_specific_ai_policy |-> FALSE]
    /\ wp_step' = "subpages"
    /\ UNCHANGED <<pc, batch_count, continue_token, wikiprojects, pop_i,
                   top_projects, wp_i, subpages, wikiproject_data, outVars,
                   notWikiProject>>

\* lines 313-317: get_wikiproject_subpages, [] on an exception
analyze_wikiproject_subpages(ok, list) ==
    /\ script = "wikiproject" /\ pc = "analyze" /\ wp_step = "subpages"
    /\ ~ok => list = <<>>
    /\ Request(ok, FALSE)
    /\ subpages' = list
    /\ wp_step' = "subpage"
    /\ UNCHANGED <<pc, batch_count, continue_token, wikiprojects, pop_i,
                   top_projects, wp_i, analysis, wikiproject_data, outVars,
                   notWikiProject>>

\* lines 321-344 for a subpage no keyword matches: nothing is fetched
analyze_wikiproject_skip_subpage ==
    /\ script = "wikiproject" /\ pc = "analyze" /\ wp_step = "subpage"
    /\ subpages # <<>> /\ Head(subpages) = "other"
    /\ subpages' = Tail(subpages)
    /\ UNCHANGED <<pc, batch_count, continue_token, wikiprojects, pop_i,
                   top_projects, wp_i, wp_step, analysis, wikiproject_data,
                   netVars, outVars, notWikiProject>>

\* lines 321-344 for a guideline/policy subpage: fetch, count, sleep
analyze_wikiproject_subpage(res) ==
    /\ script = "wikiproject" /\ pc = "analyze" /\ wp_step = "subpage"
    /\ subpages # <<>> /\ Head(subpages) # "other"
    /\ Request(res # NoPage, TRUE)
    /\ analysis' = IF res \in {NoPage, 0} THEN analysis
                   ELSE [analysis EXCEPT
                           !.total_ai_references = @ + res,
                           !.ai_policy_pages = @ + 1,
                           !.has_specific_ai_policy =
                               @ \/ Head(subpages) = "ai_policy"]
    /\ subpages' = Tail(subpages)
    /\ UNCHANGED <<pc, batch_count, continue_token, wikiprojects, pop_i,
                   top_projects, wp_i, wp_step, wikiproject_data, outVars,
                   notWikiProject>>

\* analyze_wikiproject returns; analyze_all_wikiprojects appends (line 373)
analyze_all_wikiprojects_append ==
    /\ script = "wikiproject" /\ pc = "analyze" /\ wp_step = "subpage"
    /\ subpages = <<>>
    /\ wikiproject_data' = Append(wikiproject_data, analysis)
    /\ wp_i' = wp_i + 1
    /\ wp_step' = "main_page"
    /\ pc' = IF wp_i + 1 > Len(top_projects) THEN "report" ELSE "analyze"
    /\ analysis' = <<>>
    /\ UNCHANGED <<batch_count, continue_token, wikiprojects, pop_i,
                   top_projects, subpages, netVars, outVars,
                   notWikiProject>>

\* generate_report, lines 384-390: "returned" or the exception it raises
generate_report_outcome(total_projects) ==
    IF total_projects = 0 THEN "ZeroDivisionError" ELSE "returned"

\* main() of the WikiProject analyzer has no try: generate_report
wikiproject_generate_report ==
    /\ script = "wikiproject" /\ pc = "report"
    /\ IF generate_report_outcome(Len(wikiproject_data)) = "returned"
       THEN GoesOn("save", {"summary"})
       ELSE Uncaught(generate_report_outcome(Len(wikiproject_data)))
    /\ UNCHANGED <<netVars, wpVars, notWikiProject>>

\* main() of the WikiProject analyzer: save_results
wikiproject_save_results(writeOk) ==
    /\ script = "wikiproject" /\ pc = "save"
    /\ IF writeOk
       THEN Returns({"saved_path"})
       ELSE Uncaught("OSError")
    /\ UNCHANGED <<netVars, wpVars, notWikiProject>>

(* ---------------------------------------------------------------------- *)
(* wikipedia_afd_ai_pattern_analyzer.py                                    *)
(* ---------------------------------------------------------------------- *)
\* how many of the search keywords of get_afd_discussions_ai the model runs
NumKeywords == 2
\* main() analyses afd_list[:30]
MaxAnalyzed == 30

\* the titles one search can return, in result order
SearchResults == {<<>>, <<"A">>, <<"B">>, <<"A", "B">>, <<"B", "A">>}

\* a variant of lines 48-58 that appends every result, seen before or not
AddNew_without_seen_check(results, keyword, seen, found) ==
    <<seen \cup {results[i] : i \in DOMAIN results},
      found \o [i \in DOMAIN results |-> [title |-> results[i], keyword |-> keyword]]>>

RECURSIVE AddNew(_, _, _, _)
\* lines 48-58: append the results whose title is not in seen_titles
AddNew(results, keyword, seen, found) ==
    IF results = <<>> THEN <<seen, found>>
    ELSE IF Head(results) \in seen
         THEN AddNew(Tail(results), keyword, seen, found)
         ELSE AddNew(Tail(results), keyword, seen \cup {Head(results)},
                     Append(found, [title |-> Head(results), keyword |-> keyword]))

\* a variant of the except branch that gives up on the remaining keywords
afd_search_failed_aborts ==
    /\ kw_i' = NumKeywords + 1
    /\ UNCHANGED <<seen_titles, all_discussions>>

\* the except branch of the keyword loop: print the error, go to the next keyword
afd_search_failed ==
    /\ kw_i' = kw_i + 1
    /\ UNCHANGED <<seen_titles, all_discussions>>

\* one pass of the keyword loop of get_afd_discussions_ai
get_afd_discussions_ai_search(kind, results) ==
    /\ script = "afd" /\ pc = "afd_search"
    /\ kw_i <= NumKeywords
    /\ kind = "exception" => results = <<>>
    /\ Request(kind = "ok" /\ results # <<>>, kind = "ok")
    /\ IF kind = "exception"
       THEN afd_search_failed
       ELSE LET r == AddNew(results, kw_i, seen_titles, all_discussions)
            IN /\ seen_titles' = r[1]
               /\ all_discussions' = r[2]
               /\ kw_i' = kw_i + 1
    /\ search_log' = Append(search_log, results)
    /\ UNCHANGED <<pc, afd_i, all_analyses, outVars, notAfd>>

\* get_afd_discussions_ai returns to main()
get_afd_discussions_ai_return ==
    /\ script = "afd" /\ pc = "afd_search"
    /\ kw_i > NumKeywords
    /\ pc' = "afd_fetch"
    /\ UNCHANGED <<afdVars, netVars, outVars, notAfd>>

\* main(), lines 299-315: fetch_afd_full_text and analyze_afd_text for one
\* discussion; res is NoPage or the number of voters found in its text
afd_main_fetch(res) ==
    /\ script = "afd" /\ pc = "afd_fetch"
    /\ afd_i <= Len(Take(all_discussions, MaxAnalyzed))
    /\ Request(res # NoPage, TRUE)
    /\ all_analyses' = Append(all_analyses, res)
    /\ afd_i' = afd_i + 1
    /\ UNCHANGED <<pc, kw_i, seen_titles, all_discussions, search_log, outVars, notAfd>>

\* main(), lines 328-339: "returned" or the exception the statistics raise
afd_statistics_outcome(analyses) ==
    IF Len(SelectSeq(analyses, LAMBDA a : a # NoPage)) = 0
    THEN "ZeroDivisionError" ELSE "returned"

\* main(), lines 317-339: categorize, extract, statistics (no try)
afd_main_statistics ==
    /\ script = "afd" /\ pc = "afd_fetch"
    /\ afd_i > Len(Take(all_discussions, MaxAnalyzed))
    /\ IF afd_statistics_outcome(all_analyses) = "returned"
       THEN GoesOn("save", {"summary"})
       ELSE Uncaught(afd_statistics_outcome(all_analyses))
    /\ UNCHANGED <<afdVars, netVars, notAfd>>

\* main(), lines 341-367: write the JSON file, echo its path
afd_main_save(writeOk) ==
    /\ script = "afd" /\ pc = "save"
    /\ IF writeOk
       THEN Returns({"saved_path", "complete"})
       ELSE Uncaught("OSError")
    /\ UNCHANGED <<afdVars, netVars, notAfd>>

(* ---------------------------------------------------------------------- *)
(* wikipedia_ai_discussions_analyzer.py                                    *)
(* ---------------------------------------------------------------------- *)
\* how many of self.discussion_pages the model runs
NumDiscussionPages == 2

\* one pass of the loop of analyze_ai_discussions: res is NoPage (None from
\* search_page_for_ai_discussions) or the number of AI discussions found
analyze_ai_discussions_page(res) ==
    /\ script = "discussions" /\ pc = "pages"
    /\ dp_i <= NumDiscussionPages
    /\ Request(res # NoPage, TRUE)
    /\ discussion_data' = IF res # NoPage /\ res > 0
                          THEN Append(discussion_data, dp_i)
                          ELSE discussion_data
    /\ dp_i' = dp_i + 1
    /\ pc' = IF dp_i + 1 > NumDiscussionPages THEN "proposals" ELSE "pages"
    /\ UNCHANGED <<ai_proposals, outVars, notDiscussions>>

\* search_recent_ai_proposals: [] on an exception
search_recent_ai_proposals(res) ==
    /\ script = "discussions" /\ pc = "proposals"
    /\ Request(res # NoPage, FALSE)
    /\ ai_proposals' = IF res = NoPage THEN 0 ELSE res
    /\ pc' = "save"
    /\ UNCHANGED <<dp_i, discussion_data, outVars, notDiscussions>>

\* main(): save_discussion_results inside the try
discussions_save(writeOk) ==
    /\ script = "discussions" /\ pc = "save"
    /\ IF writeOk
       THEN GoesOn("summary", {"saved_log"})
       ELSE Caught("OSError")
    /\ UNCHANGED <<discVars, netVars, notDiscussions>>

\* print_discussion_summary: generate_discussion_report returns {} when there
\* is nothing, and report['summary'] then raises
print_discussion_summary_outcome(pages, proposals) ==
    IF pages = 0 /\ proposals = 0 THEN "KeyError" ELSE "returned"

\* main(): print_discussion_summary and the closing prints inside the try
discussions_summary ==
    /\ script = "discussions" /\ pc = "summary"
    /\ LET r == print_discussion_summary_outcome(Len(discussion_data), ai_proposals)
       IN IF r = "returned"
          THEN Returns({"summary", "saved_path", "complete"})
          ELSE Caught(r)
    /\ UNCHANGED <<discVars, netVars, notDiscussions>>

(* ---------------------------------------------------------------------- *)
(* wikipedia_specific_governance_analyzer.py                               *)
(* ---------------------------------------------------------------------- *)
\* how many of self.key_governance_pages the model runs
NumGovernancePages == 2

\* one pass of the loop of analyze_governance_pages
analyze_governance_pages_page(ok) ==
    /\ script = "governance" /\ pc = "pages"
    /\ gp_i <= NumGovernancePages
    /\ Request(ok, TRUE)
    /\ governance_pages_data' = IF ok THEN Append(governance_pages_data, gp_i)
                                ELSE governance_pages_data
    /\ gp_i' = gp_i + 1
    /\ pc' = IF gp_i + 1 > NumGovernancePages THEN "save" ELSE "pages"
    /\ UNCHANGED <<outVars, notGovernance>>

\* main(): save_results inside the try
governance_save(writeOk) ==
    /\ script = "governance" /\ pc = "save"
    /\ IF writeOk
       THEN GoesOn("summary", {"saved_log"})
       ELSE Caught("OSError")
    /\ UNCHANGED <<govVars, netVars, notGovernance>>

\* print_summary: generate_ai_governance_report returns {} without pages, and
\* report['summary'] then raises
governance_print_summary_outcome(pages) ==
    IF pages = 0 THEN "KeyError" ELSE "returned"

\* main(): print_summary and the closing prints inside the try
governance_summary ==
    /\ script = "governance" /\ pc = "summary"
    /\ LET r == governance_print_summary_outcome(Len(governance_pages_data))
       IN IF r = "returned"
          THEN Returns({"summary", "saved_path", "complete"})
          ELSE Caught(r)
    /\ UNCHANGED <<govVars, netVars, notGovernance>>

(* ---------------------------------------------------------------------- *)
(* wikipedia_ai_enforcement_analyzer.py                                    *)
(* ---------------------------------------------------------------------- *)
\* the three requests of collect_sample: recent, high-traffic, medium-traffic
SampleRequests == 3
\* most articles one of them returns in the model
MaxPerCategory == 1

\* collect_sample: one of its requests, [] on an exception; a sleep follows
\* the first two
collect_sample_request(n) ==
    /\ script = "enforcement" /\ pc = "collect"
    /\ Request(n > 0, cs_i < SampleRequests)
    /\ article_list' = article_list \o [i \in 1..n |-> cs_i]
    /\ cs_i' = cs_i + 1
    /\ pc' = IF cs_i + 1 > SampleRequests THEN "analyze" ELSE "collect"
    /\ UNCHANGED <<art_i, art_step, edit_data, talk_data, outVars, notEnforcement>>

\* analyze_all_articles, lines 369-372: analyze_edit_history ([] on an
\* exception), extend, sleep; found says it returned AI-related edits
analyze_all_articles_edits(ok, found) ==
    /\ script = "enforcement" /\ pc = "analyze" /\ art_step = "edits"
    /\ art_i <= Len(article_list)
    /\ ~ok => ~found
    /\ Request(found, TRUE)
    /\ edit_data' = IF found THEN Append(edit_data, art_i) ELSE edit_data
    /\ art_step' = "talk"
    /\ UNCHANGED <<pc, cs_i, article_list, art_i, talk_data, outVars, notEnforcement>>

\* analyze_all_articles, lines 374-377: analyze_talk_page, extend, sleep
analyze_all_articles_talk(ok, found) ==
    /\ script = "enforcement" /\ pc = "analyze" /\ art_step = "talk"
    /\ art_i <= Len(article_list)
    /\ ~ok => ~found
    /\ Request(found, TRUE)
    /\ talk_data' = IF found THEN Append(talk_data, art_i) ELSE talk_data
    /\ art_step' = "edits"
    /\ art_i' = art_i + 1
    /\ UNCHANGED <<pc, cs_i, article_list, edit_data, outVars, notEnforcement>>

\* generate_statistics, line 393: the revert percentage or its sentinel
reverts_line(total_edits) ==
    IF total_edits > 0 THEN "percentage" ELSE "Reverts: 0"

\* main(): generate_statistics once the article loop is over
enforcement_generate_statistics ==
    /\ script = "enforcement" /\ pc = "analyze"
    /\ art_i > Len(article_list)
    /\ GoesOn("save", {"summary", reverts_line(Len(edit_data))})
    /\ UNCHANGED <<enfVars, netVars, notEnforcement>>

\* main(): save_results and the closing print (no try)
enforcement_save_results(writeOk) ==
    /\ script = "enforcement" /\ pc = "save"
    /\ IF writeOk
       THEN Returns({"saved_path", "complete"})
       ELSE Uncaught("OSError")
    /\ UNCHANGED <<enfVars, netVars, notEnforcement>>

(* ---------------------------------------------------------------------- *)
(* eclipse_foundation_collector.py                                         *)
(* ---------------------------------------------------------------------- *)
\* most projects the project list holds in the model
NumProjects == 2
\* ThreadPoolExecutor(max_workers=5)
MaxWorkers == 5
\* Counter.most_common(10)
TopN == 10

Orgs == {"a", "b"}
Categories == {"iot", "tools"}
\* analyze_project_details returned None
NoInfo == [ok |-> FALSE, org |-> "", category |-> ""]
\* the project_info records it can return
ProjectInfos == [ok : {TRUE}, org : Orgs, category : Categories]

RECURSIVE CounterOf(_, _)
\* Counter(labels): count the labels in the order they come
CounterOf(labels, c) ==
    IF labels = <<>> THEN c
    ELSE CounterOf(Tail(labels), CounterInc(c, Head(labels)))

\* Counter.most_common(n): highest counts first, equal counts in insertion
\* order, the first n
MostCommon(c, n) ==
    Take(SortDescStable([i \in 1..Len(c) |-> <<c[i].n, c[i]>>]), n)

\* generate_statistics of the Eclipse collector: {} without projects
generate_statistics(projs) ==
    IF projs = <<>> THEN [empty |-> TRUE]
    ELSE [empty |-> FALSE,
          total_projects |-> Len(projs),
          project_categories |->
              MostCommon(CounterOf([i \in 1..Len(projs) |-> projs[i].category], <<>>), TopN),
          top_github_organizations |->
              MostCommon(CounterOf([i \in 1..Len(projs) |-> projs[i].org], <<>>), TopN)]

\* get_all_projects ([] on an exception) and the submit of every project
eclipse_get_all_projects(n) ==
    /\ script = "eclipse" /\ pc = "get_all_projects"
    /\ Request(n > 0, FALSE)
    /\ projects_data' = [i \in 1..n |-> i]
    /\ task' = [i \in 1..n |-> "queued"]
    /\ result' = [i \in 1..n |-> NoInfo]
    /\ pc' = IF n = 0 THEN "save" ELSE "pool"
    /\ UNCHANGED <<projects, stats, outVars, notCollector>>

\* a pool worker takes the next queued project and runs the time.sleep of
\* analyze_project_details
analyze_project_details_sleep(t) ==
    /\ script = "eclipse" /\ pc = "pool"
    /\ task[t] = "queued"
    /\ \A u \in 1..(t - 1) : task[u] # "queued"
    /\ Cardinality({u \in DOMAIN task : task[u] = "slept"}) < MaxWorkers
    /\ task' = [task EXCEPT ![t] = "slept"]
    /\ slept' = TRUE
    /\ UNCHANGED <<pc, calls, okcalls, unslept, projects_data, result, projects,
                   stats, outVars, notCollector>>

\* a variant in which the worker appends its own result to self.projects
analyze_project_details_appends(t, info) ==
    /\ script = "eclipse" /\ pc = "pool"
    /\ task[t] = "slept"
    /\ Request(info.ok, FALSE)
    /\ result' = [result EXCEPT ![t] = info]
    /\ task' = [task EXCEPT ![t] = "done"]
    /\ projects' = IF info.ok THEN Append(projects, info) ELSE projects
    /\ UNCHANGED <<pc, projects_data, stats, outVars, notCollector>>

\* the worker's request and the value analyze_project_details returns
analyze_project_details(t, info) ==
    /\ script = "eclipse" /\ pc = "pool"
    /\ task[t] = "slept"
    /\ Request(info.ok, FALSE)
    /\ result' = [result EXCEPT ![t] = info]
    /\ task' = [task EXCEPT ![t] = "done"]
    /\ UNCHANGED <<pc, projects_data, projects, stats, outVars, notCollector>>

\* analyze_all_projects, lines 150-162: the coordinating thread takes one
\* completed future from as_completed
analyze_all_projects_collect(t) ==
    /\ script = "eclipse" /\ pc = "pool"
    /\ task[t] = "done"
    /\ task' = [task EXCEPT ![t] = "collected"]
    /\ IF result[t].ok
       THEN /\ projects' = Append(projects, result[t])
            /\ stats' = [stats EXCEPT !.total_projects = @ + 1]
       ELSE UNCHANGED <<projects, stats>>
    /\ pc' = IF \A u \in DOMAIN task : u # t => task[u] = "collected"
             THEN "save" ELSE "pool"
    /\ UNCHANGED <<projects_data, result, netVars, outVars, notCollector>>

\* save_results of a collector: statistics['collection_metadata'] on the {}
\* that generate_statistics returns without projects, then the file write
save_results_outcome(nprojects, writeOk) ==
    IF nprojects = 0 THEN "KeyError"
    ELSE IF writeOk THEN "returned" ELSE "OSError"

\* main(), inside the try: save_results
collector_save_results(writeOk) ==
    /\ script \in {"eclipse", "apache"} /\ pc = "save"
    /\ LET r == save_results_outcome(Len(projects), writeOk)
       IN IF r = "returned"
          THEN GoesOn("summary", {"saved_log"})
          ELSE Caught(r)
    /\ UNCHANGED <<collVars, netVars, notCollector>>

\* main(), inside the try: print_summary and the closing prints
collector_print_summary ==
    /\ script \in {"eclipse", "apache"} /\ pc = "summary"
    /\ Returns({"summary", "saved_path", "complete"})
    /\ UNCHANGED <<collVars, netVars, notCollector>>

(* ---------------------------------------------------------------------- *)
(* apache_foundation_collector.py                                          *)
(* ---------------------------------------------------------------------- *)
\* get_apache_projects: the project list, [] on an exception
get_apache_projects(n) ==
    /\ script = "apache" /\ pc = "get_apache_projects"
    /\ Request(n > 0, FALSE)
    /\ projects_data' = [i \in 1..n |-> i]
    /\ pc' = "collect"
    /\ UNCHANGED <<task, result, projects, stats, outVars, notCollector>>

\* collect_apache_projects: analyze_apache_project for every listed project
\* (no request), a sleep after each
collect_apache_projects ==
    /\ script = "apache" /\ pc = "collect"
    /\ projects' = [i \in 1..Len(projects_data) |->
                        [ok |-> TRUE, org |-> "apache", category |-> ""]]
    /\ slept' = (slept \/ projects_data # <<>>)
    /\ pc' = "save"
    /\ UNCHANGED <<calls, okcalls, unslept, projects_data, task, result, stats,
                   outVars, notCollector>>

(* ---------------------------------------------------------------------- *)
(* run_full_analysis.py                                                    *)
(* ---------------------------------------------------------------------- *)
\* run_collector: the script exists, the subprocess did not time out, and
\* its return code is 0
run_collector(exists, timedOut, returncode) ==
    exists /\ ~timedOut /\ returncode = 0

(* ---------------------------------------------------------------------- *)
(* Text: a str is a sequence of one-character strings                      *)
(* ---------------------------------------------------------------------- *)
\* most lines of a document in the model
MaxLines == 3
\* the context radius (100 characters in the source), scaled down
Radius == 2

\* "a" and "b" stand for two AI keywords, "A" is "a" in upper case, "x", "t"
\* and "u" are other letters
IsSpace(c) == c \in {" ", "\n"}
IsWord(c) == c \in {"a", "A", "b", "x", "t", "u"}
\* str.lower / re.IGNORECASE
Lower(c) == IF c = "A" THEN "a" ELSE c

RECURSIVE LStrip(_)
LStrip(s) == IF s # <<>> /\ IsSpace(Head(s)) THEN LStrip(Tail(s)) ELSE s

RECURSIVE RStrip(_)
RStrip(s) ==
    IF s # <<>> /\ IsSpace(s[Len(s)]) THEN RStrip(SubSeq(s, 1, Len(s) - 1)) ELSE s

\* str.strip()
Strip(s) == RStrip(LStrip(s))

\* s[i:] counted from 1: the characters from position i on
From(s, i) == SubSeq(s, i, Len(s))

RECURSIVE Join(_)
\* "\n".join(lines)
Join(lines) ==
    IF Len(lines) = 1 THEN lines[1]
    ELSE lines[1] \o <<"\n">> \o Join(Tail(lines))

RECURSIVE SplitLines(_, _, _)
\* str.split('\n'): cur is the line being read, acc the lines read
SplitLines(s, cur, acc) ==
    IF s = <<>> THEN Append(acc, cur)
    ELSE IF Head(s) = "\n" THEN SplitLines(Tail(s), <<>>, Append(acc, cur))
    ELSE SplitLines(Tail(s), Append(cur, Head(s)), acc)

RECURSIVE RunOf(_, _)
\* length of the run of characters in set C that s starts with
RunOf(s, C) ==
    IF s # <<>> /\ Head(s) \in C THEN 1 + RunOf(Tail(s), C) ELSE 0

\* the characters of the model
Chars == {"=", " ", "\n", "a", "A", "b", "x", "t", "u"}
NotEq == Chars \ {"="}

\* the lines documents are made of
TextLines ==
    { <<>>, <<" ">>, <<"a">>, <<"x">>, <<"x", "a">>,
      <<"=", "=", "t", "=", "=">>, <<"=", "=", "u", "=", "=">>,
      <<"=", "t", "=">>, <<"=", "=", " ", "=", "=">> }

\* the documents: one to MaxLines lines joined by newlines
Documents == {Join(d) : d \in SeqsUpTo(TextLines, MaxLines) \ {<<>>}}

\* the title of the text before the first heading
Introduction == <<"Introduction">>

\* re.match(r'^(={2,})\s*([^=]+?)\s*\1\s*$', line): a run of n >= 2 '=', a
\* non-empty stretch without '=', the same run of n '=', then only whitespace;
\* title is match.group(2).strip()
header_pattern(line) ==
    LET n == RunOf(line, {"="})
        rest == From(line, n + 1)
        m == RunOf(rest, NotEq)
        after == From(rest, m + 1)
        k == RunOf(after, {"="})
        tail == From(after, k + 1)
    IN [matched |-> n >= 2 /\ m >= 1 /\ k = n /\ RunOf(tail, {" ", "\n"}) = Len(tail),
        title |-> Strip(SubSeq(rest, 1, m))]

RECURSIVE parse_lines(_, _, _)
\* the loop of parse_talk_sections over the lines, and the last section
parse_lines(lines, current_section, sections) ==
    LET saved == IF current_section.content # <<>>
                 THEN Append(sections, current_section) ELSE sections
    IN IF lines = <<>> THEN saved
       ELSE LET match == header_pattern(Head(lines))
            IN IF match.matched
               THEN parse_lines(Tail(lines),
                                [title |-> match.title, content |-> <<>>], saved)
               ELSE parse_lines(Tail(lines),
                                [current_section EXCEPT
                                    !.content = @ \o Head(lines) \o <<"\n">>],
                                sections)

\* parse_talk_sections of both enforcement analyzers
parse_talk_sections(content) ==
    parse_lines(SplitLines(content, <<>>, <<>>),
                [title |-> Introduction, content |-> <<>>], <<>>)

\* positions where an AI keyword of ai_pattern starts in s
KeywordAt(s) == {i \in 1..Len(s) : Lower(s[i]) \in {"a", "b"}}

\* analyze_talk_page, lines 254-275: the sections that mention AI, with the
\* number of keyword occurrences
talk_ai_discussions(content) ==
    LET sections == parse_talk_sections(content)
        hit == SelectSeq(sections, LAMBDA sec : KeywordAt(sec.content) # {})
    IN [i \in 1..Len(hit) |->
          [section_title |-> hit[i].title,
           ai_keyword_count |-> Cardinality(KeywordAt(hit[i].content))]]

\* analyze_talk_page on the content of one talk page
analyze_talk_page(content) ==
    /\ script = "talk_page" /\ pc = "call"
    /\ out' = Append(out, [sections |-> parse_talk_sections(content),
                            ai_discussions |-> talk_ai_discussions(content)])
    /\ pc' = "done"
    /\ UNCHANGED notText

\* the least of a non-empty set of numbers
MinOf(S) == CHOOSE x \in S : \A y \in S : x <= y

\* a match of r'\n=+\s*([^=]+)\s*=+' (minrun = 1) or r'\n==+\s*([^=]+)\s*==+'
\* (minrun = 2) that starts at position i of s: the newline, a run of '=', a
\* non-empty stretch of other characters (newlines included), a run of '='
heading_split_at(s, i, minrun) ==
    LET rest == From(s, i + 1)
        n == RunOf(rest, {"="})
        stretch == From(rest, n + 1)
        m == RunOf(stretch, NotEq)
        k == RunOf(From(stretch, m + 1), {"="})
    IN [matched |-> s[i] = "\n" /\ n >= minrun /\ m >= 1 /\ k >= minrun,
        title |-> Strip(SubSeq(stretch, 1, m)),
        last |-> i + n + m + k]

RECURSIVE re_split(_, _, _, _, _)
\* re.split with that pattern, from position `from` on, paired up as the
\* loops over its parts do: contents at even indexes, under the stripped
\* heading that precedes them (current_section)
re_split(s, from, minrun, current_section, acc) ==
    LET starts == {i \in from..Len(s) : heading_split_at(s, i, minrun).matched}
    IN IF starts = {}
       THEN Append(acc, [title |-> current_section, content |-> From(s, from)])
       ELSE LET i == MinOf(starts)
                h == heading_split_at(s, i, minrun)
            IN re_split(s, h.last + 1, minrun, h.title,
                        Append(acc, [title |-> current_section,
                                     content |-> SubSeq(s, from, i - 1)]))

\* self.ai_related_keywords, in list order
ai_related_keywords == <<"a", "b">>

\* re.finditer(r'\b' + keyword + r'\b', s, re.IGNORECASE): the positions
\* (from 1) of the whole-word occurrences
WordMatches(s, keyword) ==
    {i \in 1..Len(s) :
        /\ Lower(s[i]) = keyword
        /\ (i = 1 \/ ~IsWord(s[i - 1]))
        /\ (i = Len(s) \/ ~IsWord(s[i + 1]))}

RECURSIVE SetToSeq(_)
\* the elements of a set of numbers in increasing order
SetToSeq(S) ==
    IF S = {} THEN <<>> ELSE <<MinOf(S)>> \o SetToSeq(S \ {MinOf(S)})

\* lines 182-193: the mention recorded for the match at position i (from 1)
ai_mention(section, keyword, i) ==
    LET start == IF i - 1 - Radius > 0 THEN i - 1 - Radius ELSE 0
        end == Min(Len(section.content), i + Radius)
    IN [keyword |-> keyword,
        section |-> section.title,
        context |-> Strip(SubSeq(section.content, start + 1, end)),
        position |-> i - 1]

\* lines 178-193 for one section: every keyword in list order, every match
\* in text order
section_mentions(section) ==
    LET of(keyword) == LET at == SetToSeq(WordMatches(section.content, keyword))
                       IN [j \in 1..Len(at) |-> ai_mention(section, keyword, at[j])]
    IN of(ai_related_keywords[1]) \o of(ai_related_keywords[2])

RECURSIVE all_mentions(_)
all_mentions(sections) ==
    IF sections = <<>> THEN <<>>
    ELSE section_mentions(Head(sections)) \o all_mentions(Tail(sections))

\* keyword.lower() in section_content.lower()
ContainsKeyword(s, keyword) == \E i \in 1..Len(s) : Lower(s[i]) = keyword

\* extract_ai_references; order is the iteration order of the set of the
\* keywords found (the str hash is seeded per process)
extract_ai_references(wikitext, order) ==
    IF wikitext = <<>>
    THEN [ai_found |-> FALSE, ai_sections |-> <<>>, ai_mentions |-> <<>>,
          total_ai_references |-> 0]
    ELSE LET sections == re_split(wikitext, 1, 2, Introduction, <<>>)
             ai_mentions == all_mentions(sections)
             found == {ai_mentions[i].keyword : i \in 1..Len(ai_mentions)}
             with_ai == SelectSeq(sections, LAMBDA sec :
                            \E j \in 1..Len(ai_related_keywords) :
                                ContainsKeyword(sec.content, ai_related_keywords[j]))
         IN [ai_found |-> Len(ai_mentions) > 0,
             ai_sections |->
                 [i \in 1..Len(with_ai) |->
                     [section_title |-> with_ai[i].title,
                      content |-> with_ai[i].content,
                      ai_keywords_found |->
                          SelectSeq(ai_related_keywords, LAMBDA kw :
                              ContainsKeyword(with_ai[i].content, kw))]],
             ai_mentions |-> ai_mentions,
             total_ai_references |-> Len(ai_mentions),
             unique_ai_terms |-> SelectSeq(order, LAMBDA kw : kw \in found)]

\* the orders a set of the two keywords can be listed in
KeywordOrders == {<<"a", "b">>, <<"b", "a">>}

\* one run of extract_ai_references on the page; the page is analysed in
\* two runs of the script
extract_ai_references_run(order) ==
    /\ script = "governance_text" /\ pc \in {"call", "second_run"}
    /\ out' = Append(out, extract_ai_references(text, order))
    /\ pc' = IF pc = "call" THEN "second_run" ELSE "done"
    /\ UNCHANGED notText

\* extract_ai_discussions, lines 140-162: the sections and, of each, whether
\* it contains a keyword (the sections whose threads are extracted)
extract_ai_discussions(content) ==
    IF content = <<>> THEN <<>>
    ELSE LET sections == re_split(content, 1, 1, Introduction, <<>>)
         IN [i \in 1..Len(sections) |->
               [title |-> sections[i].title,
                ai_found |-> \E j \in 1..Len(ai_related_keywords) :
                    ContainsKeyword(sections[i].content, ai_related_keywords[j])]]

\* search_page_for_ai_discussions hands the page content to extract_ai_discussions
extract_ai_discussions_call ==
    /\ script = "discussion_text" /\ pc = "call"
    /\ out' = Append(out, extract_ai_discussions(text))
    /\ pc' = "done"
    /\ UNCHANGED notText

(* ---------------------------------------------------------------------- *)
(* wikipedia_afd_ai_pattern_analyzer.py: analyze_afd_text                  *)
(* ---------------------------------------------------------------------- *)
\* most characters of an AfD text in the model
MaxTextLen == 4
\* how many unique policies analyze_afd_text keeps (10 in the source),
\* scaled down
MaxCited == 1

\* "P" and "Q" stand for the policy links [[WP:P]] and [[WP:Q]]
AfdChars == {"a", "A", "b", "x", "\n", "P", "Q"}
AfdTexts == SeqsUpTo(AfdChars, MaxTextLen)

\* the indicators list, in list order
indicators == <<"a", "b">>

\* the value analyze_afd_text returns for an empty text
None == [is_none |-> TRUE]

\* positions (from 1) where the indicator occurs in s, case-insensitively
Occurrences(s, indicator) == {i \in 1..Len(s) : Lower(s[i]) = indicator}

\* the greatest of a non-empty set of numbers
MaxOf(S) == CHOOSE x \in S : \A y \in S : x >= y

RECURSIVE findall_context(_, _, _, _)
\* re.compile('.{0,100}' + indicator + '.{0,100}', IGNORECASE | DOTALL)
\* .findall(s) from position pos on: the leftmost start within the radius
\* of an occurrence, the greedy prefix up to the last occurrence it can
\* reach, the suffix up to the radius; the scan resumes after the match
findall_context(s, pos, indicator, acc) ==
    LET later == {j \in Occurrences(s, indicator) : j >= pos}
    IN IF later = {} THEN acc
       ELSE LET first == MinOf(later)
                start == IF first - Radius > pos THEN first - Radius ELSE pos
                j == MaxOf({i \in later : i <= start + Radius})
                end == Min(Len(s), j + Radius)
            IN findall_context(s, end + 1, indicator,
                               Append(acc, SubSeq(s, start, end)))

\* m.replace('\n', ' ')
ReplaceNewlines(m) == [i \in 1..Len(m) |-> IF m[i] = "\n" THEN " " ELSE m[i]]

\* lines 117-127 for one indicator: <<>> or the one entry appended
detection_indicator(s, indicator) ==
    LET matches == findall_context(s, 1, indicator, <<>>)
        shown == Take(matches, 2)
    IN IF Occurrences(s, indicator) = {} \/ matches = <<>> THEN <<>>
       ELSE << [indicator |-> indicator,
                count |-> Len(matches),
                examples |-> [i \in 1..Len(shown) |->
                                 Take(ReplaceNewlines(shown[i]), 2 * Radius)]] >>

\* the orders a set of the policy names can be listed in
PolicyOrders == {<<"P", "Q">>, <<"Q", "P">>}

\* analyze_afd_text; order is the iteration order of set(policies)
analyze_afd_text(s, order) ==
    IF s = <<>> THEN None
    ELSE LET policies == {s[i] : i \in {j \in 1..Len(s) : s[j] \in {"P", "Q"}}}
         IN [is_none |-> FALSE,
             text_length |-> Len(s),
             detection_indicators |->
                 detection_indicator(s, indicators[1])
                 \o detection_indicator(s, indicators[2]),
             policies_cited |->
                 Take(SelectSeq(order, LAMBDA q : q \in policies), MaxCited)]

\* one run of analyze_afd_text on the discussion text; the discussion is
\* analysed in two runs of the script
analyze_afd_text_run(order) ==
    /\ script = "afd_text" /\ pc \in {"call", "second_run"}
    /\ out' = Append(out, analyze_afd_text(text, order))
    /\ pc' = IF pc = "call" THEN "second_run" ELSE "done"
    /\ UNCHANGED notText

(* ---------------------------------------------------------------------- *)
(* wikipedia_wikiproject_ai_analyzer.py: the text functions                *)
(* ---------------------------------------------------------------------- *)
\* count_ai_references: whole-word matches of every keyword in text.lower()
count_ai_references(s) ==
    IF s = <<>> THEN 0
    ELSE LET lower == [i \in 1..Len(s) |-> Lower(s[i])]
         IN Cardinality(WordMatches(lower, ai_related_keywords[1]))
            + Cardinality(WordMatches(lower, ai_related_keywords[2]))

RECURSIVE policy_section_lines(_, _, _)
\* the loop of extract_ai_policy_sections over the lines, and the last
\* section: a section is kept when it has content with AI references
policy_section_lines(lines, current_section, sections) ==
    LET ai_count == count_ai_references(current_section.content)
        saved == IF current_section.content # <<>> /\ ai_count > 0
                 THEN Append(sections,
                             [title |-> current_section.title,
                              content |-> current_section.content,
                              level |-> current_section.level,
                              ai_references |-> ai_count])
                 ELSE sections
    IN IF lines = <<>> THEN saved
       ELSE LET match == header_pattern(Head(lines))
            IN IF match.matched
               THEN policy_section_lines(Tail(lines),
                        [title |-> match.title, content |-> <<>>,
                         level |-> RunOf(Head(lines), {"="})], saved)
               ELSE policy_section_lines(Tail(lines),
                        [current_section EXCEPT
                            !.content = @ \o Head(lines) \o <<"\n">>],
                        sections)

\* extract_ai_policy_sections
extract_ai_policy_sections(wikitext) ==
    IF wikitext = <<>> THEN <<>>
    ELSE policy_section_lines(SplitLines(wikitext, <<>>, <<>>),
             [title |-> Introduction, content |-> <<>>, level |-> 0], <<>>)

\* analyze_wikiproject, lines 301-309, on the wikitext of one page
analyze_wikiproject_text ==
    /\ script = "wikiproject_text" /\ pc = "call"
    /\ out' = Append(out, [ai_count |-> count_ai_references(text),
                            ai_sections |-> extract_ai_policy_sections(text)])
    /\ pc' = "done"
    /\ UNCHANGED notText

(* ---------------------------------------------------------------------- *)
(* Ranked frequency tables: categorize_detection_patterns of the AfD       *)
(* analyzer and print_results of the policy citation analyzer              *)
(* ---------------------------------------------------------------------- *)
\* how many citations the model counts into one table
MaxCitations == 13
\* the policies that can be cited
CitedPolicies == {"a", "b", "c"}

notRanking == <<script, text, batch_num, rccontinue, ai_policies,
                total_edits_checked, edits_with_policies, rc_log, netVars, outVars,
                mozVars, wpVars, afdVars, discVars, govVars, enfVars, collVars,
                otherVars>>

\* categorize_detection_patterns: all_policies[policy] += 1
categorize_count(policy) ==
    /\ script = "ranking" /\ pc = "count"
    /\ CounterTotal(all_policies) < MaxCitations
    /\ all_policies' = CounterInc(all_policies, policy)
    /\ UNCHANGED <<pc, out, notRanking>>

\* all_policies.most_common(n), n being 15 or 20 in the code
categorize_most_common(n) ==
    /\ script = "ranking" /\ pc = "count"
    /\ out' = Append(out, [n |-> n, top |-> MostCommon(all_policies, n)])
    /\ pc' = "done"
    /\ UNCHANGED <<all_policies, notRanking>>

(* ---------------------------------------------------------------------- *)
(* Output files: paths are sequences of components                         *)
(* ---------------------------------------------------------------------- *)
\* the directory of run_full_analysis.py and the one of the collectors
AnalysisDir == <<"repo", "nonprofit-foundation-analysis">>
CollectorsDir == <<"repo", "nonprofit-foundation-analysis", "collectors">>

RECURSIVE Resolve(_, _)
\* open() / os.path.exists on a relative path: resolved against the working
\* directory, ".." being the parent directory
Resolve(dir, rel) ==
    IF rel = <<>> THEN dir
    ELSE IF Head(rel) = ".."
         THEN Resolve(SubSeq(dir, 1, Len(dir) - 1), Tail(rel))
         ELSE Resolve(Append(dir, Head(rel)), Tail(rel))

\* how many runs of one script the model makes
MaxRuns == 2
\* the instants a save can happen at, in clock ticks
MaxClock == 4
\* clock ticks in a second
TicksPerSecond == 2

\* datetime.now().strftime("%Y%m%d_%H%M%S"): the time to the second
strftime(now) == ToString(now \div TicksPerSecond)

\* the scripts whose file name carries the timestamp, and the collectors
TimestampedSavers == {"afd", "policy"}
FoundationCollectors == {"apache", "eclipse", "linux", "mozilla", "osi", "fsf"}
Savers == TimestampedSavers \cup {"apache", "eclipse"}

\* the JSON file a collector's save_results opens
json_filename(collector) ==
    <<"..", "results",
      CASE collector = "apache" -> "apache_foundation_results.json"
        [] collector = "eclipse" -> "eclipse_foundation_results.json"
        [] collector = "linux" -> "linux_foundation_results.json"
        [] collector = "mozilla" -> "mozilla_foundation_results.json"
        [] collector = "osi" -> "osi_ecosystem_results.json"
        [] collector = "fsf" -> "fsf_ecosystem_results.json">>

\* the output file of a script that saves at instant `now`; a file name
\* f"prefix_{timestamp}.json" is the pair of its prefix and its timestamp
output_file(saver, now) ==
    CASE saver = "afd" -> <<"wikipedia_afd_ai_patterns_", strftime(now)>>
      [] saver = "policy" -> <<"wikipedia_policy_citations_2025_", strftime(now)>>
      [] OTHER -> json_filename(saver)

\* the working directories a script is started in
StartDirs(s) ==
    IF s \in {"full_analysis", "save_runs"} THEN {AnalysisDir, CollectorsDir}
    ELSE {CollectorsDir}

\* open(path, 'w') and json.dump: the file is created or replaced
WriteFile(fs, path, content) ==
    [p \in DOMAIN fs \cup {path} |-> IF p = path THEN content ELSE fs[p]]

\* one run of a script reaches its save at instant `now`, later than the
\* save of the run before
save_results_run(saver, now) ==
    /\ script = "save_runs" /\ pc = "run"
    /\ Len(runs) < MaxRuns
    /\ runs # <<>> => now > runs[Len(runs)].at
    /\ LET path == Resolve(cwd, output_file(saver, now))
       IN /\ files' = WriteFile(files, path, [run |-> Len(runs) + 1])
          /\ runs' = Append(runs, [script |-> saver, at |-> now, path |-> path])
    /\ UNCHANGED <<script, pc, cwd, netVars, outVars, scriptVars, orchVars,
                   ecoVars, tgtVars>>

(* ---------------------------------------------------------------------- *)
(* fsf_ecosystem_collector.py and osi_ecosystem_collector.py               *)
(* ---------------------------------------------------------------------- *)
\* the lengths of core_gnu_projects, major_licenses and major_affiliates
NumGnuProjects == 8
NumLicenses == 7
NumAffiliates == 7

notEcosystem == <<script, cwd, runs, scriptVars, orchVars, tgtVars>>

\* FSFEcosystemCollector.generate_statistics: {} without projects
fsf_generate_statistics(projs) ==
    IF projs = <<>> THEN <<>>
    ELSE [total_gnu_projects |-> Len(projs)]

\* main() of the FSF collector: save_results. The statistics come first,
\* then collect_fsf_ecosystem_data (the Savannah request, the project list,
\* the directory request), then the JSON file
fsf_save_results(savannahOk, fsdOk, writeOk) ==
    /\ script = "fsf" /\ pc = "save"
    /\ LET statistics == fsf_generate_statistics(gnu_projects)
           gnu_data == [i \in 1..NumGnuProjects |-> i]
       IN /\ gnu_projects' = gnu_data
          /\ IF writeOk
             THEN /\ files' = WriteFile(files, Resolve(cwd, json_filename("fsf")),
                                  [gnu_projects |-> gnu_data, statistics |-> statistics])
                  /\ GoesOn("summary", {"saved_log"})
             ELSE /\ Caught("OSError")
                  /\ UNCHANGED files
    /\ calls' = calls + 2
    /\ okcalls' = okcalls + (IF savannahOk THEN 1 ELSE 0) + (IF fsdOk THEN 1 ELSE 0)
    /\ slept' = fsdOk
    /\ UNCHANGED <<unslept, affiliates, licenses, summary, notEcosystem>>

\* main() of the FSF collector: print_summary computes the statistics anew
fsf_print_summary ==
    /\ script = "fsf" /\ pc = "summary"
    /\ summary' = fsf_generate_statistics(gnu_projects)
    /\ Returns({"summary", "saved_path", "complete"})
    /\ UNCHANGED <<netVars, files, gnu_projects, affiliates, licenses, notEcosystem>>

\* OSIEcosystemCollector.generate_statistics
osi_generate_statistics(affs, lics) ==
    [total_affiliates_analyzed |-> Len(affs), total_licenses_analyzed |-> Len(lics)]

\* main() of the OSI collector: save_results. The statistics come first,
\* then collect_osi_ecosystem_data (no request), then the JSON file
osi_save_results(writeOk) ==
    /\ script = "osi" /\ pc = "save"
    /\ LET statistics == osi_generate_statistics(affiliates, licenses)
           major_licenses == [i \in 1..NumLicenses |-> i]
           major_affiliates == [i \in 1..NumAffiliates |-> i]
       IN /\ licenses' = major_licenses
          /\ affiliates' = major_affiliates
          /\ IF writeOk
             THEN /\ files' = WriteFile(files, Resolve(cwd, json_filename("osi")),
                                  [affiliate_organizations |-> major_affiliates,
                                   major_licenses |-> major_licenses,
                                   statistics |-> statistics])
                  /\ GoesOn("summary", {"saved_log"})
             ELSE /\ Caught("OSError")
                  /\ UNCHANGED files
    /\ UNCHANGED <<netVars, gnu_projects, summary, notEcosystem>>

\* main() of the OSI collector: print_summary computes the statistics anew
osi_print_summary ==
    /\ script = "osi" /\ pc = "summary"
    /\ summary' = osi_generate_statistics(affiliates, licenses)
    /\ Returns({"summary", "saved_path", "complete"})
    /\ UNCHANGED <<netVars, files, gnu_projects, affiliates, licenses, notEcosystem>>

(* ---------------------------------------------------------------------- *)
(* run_full_analysis.py: main                                              *)
(* ---------------------------------------------------------------------- *)
\* the collectors list of run_all_collectors
collectors == <<"apache", "eclipse", "linux", "mozilla", "osi", "fsf">>

\* what a collector subprocess can do: save its file and exit 0, catch an
\* exception in its main() and exit 0 without a file, exit non-zero, or
\* run into the timeout
SubprocessOutcomes == {"saved", "caught", "crashed", "timeout"}

\* foundation_files of load_foundation_results
foundation_files(foundation_key) ==
    CASE foundation_key = "apache" -> "apache_foundation_results.json"
      [] foundation_key = "eclipse" -> "eclipse_foundation_results.json"
      [] foundation_key = "linux" -> "linux_foundation_results.json"
      [] foundation_key = "mozilla" -> "mozilla_foundation_results.json"
      [] foundation_key = "osi" -> "osi_ecosystem_results.json"
      [] foundation_key = "fsf" -> "fsf_ecosystem_results.json"

\* load_foundation_results in a process with working directory dir: the
\* foundations whose file exists under results/
load_foundation_results(fs, dir) ==
    {f \in FoundationCollectors :
        Resolve(dir, <<"results", foundation_files(f)>>) \in DOMAIN fs}

notFullAnalysis == <<script, cwd, runs, netVars, scriptVars, ecoVars, tgtVars>>

\* main(): check_dependencies; 'beautifulsoup4' is never importable under
\* that name, so the outcome is that of the pip install
main_check_dependencies(installOk) ==
    /\ script = "full_analysis" /\ pc = "dependencies"
    /\ IF installOk
       THEN /\ pc' = "collectors"
            /\ UNCHANGED outVars
       ELSE /\ pc' = "done"
            /\ console' = console \cup {"dependency_check_failed"}
            /\ exit_code' = 1
            /\ UNCHANGED error
    /\ UNCHANGED <<files, orchVars, notFullAnalysis>>

\* a variant of the loop of run_all_collectors that gives up after a
\* collector that did not succeed
run_all_collectors_stops(present, outcome) ==
    /\ script = "full_analysis" /\ pc = "collectors"
    /\ LET collector == collectors[Len(collector_results) + 1]
           exists == present /\ cwd = AnalysisDir
           success == run_collector(exists, outcome = "timeout",
                          IF outcome \in {"saved", "caught"} THEN 0 ELSE 1)
       IN /\ collector_results' = Append(collector_results,
                                     [collector |-> collector, success |-> success])
          /\ files' = IF exists /\ outcome = "saved"
                       THEN WriteFile(files, Resolve(cwd, json_filename(collector)),
                                [foundation |-> collector])
                       ELSE files
          /\ pc' = IF ~success \/ Len(collector_results) + 1 = Len(collectors)
                    THEN "comparison" ELSE "collectors"
    /\ UNCHANGED <<comparison, outVars, notFullAnalysis>>

\* one pass of the loop of run_all_collectors: run_collector on the next
\* collector; the script is found when it is present under collectors/ of
\* the working directory
run_all_collectors_next(present, outcome) ==
    /\ script = "full_analysis" /\ pc = "collectors"
    /\ LET collector == collectors[Len(collector_results) + 1]
           exists == present /\ cwd = AnalysisDir
           success == run_collector(exists, outcome = "timeout",
                          IF outcome \in {"saved", "caught"} THEN 0 ELSE 1)
       IN /\ collector_results' = Append(collector_results,
                                     [collector |-> collector, success |-> success])
          /\ files' = IF exists /\ outcome = "saved"
                       THEN WriteFile(files, Resolve(cwd, json_filename(collector)),
                                [foundation |-> collector])
                       ELSE files
          /\ pc' = IF Len(collector_results) + 1 = Len(collectors)
                    THEN "comparison" ELSE "collectors"
    /\ UNCHANGED <<comparison, outVars, notFullAnalysis>>

\* main(), lines 193-207: generate_comparison when a collector succeeded;
\* the comparison subprocess runs in the same working directory
main_generate_comparison(outcome) ==
    /\ script = "full_analysis" /\ pc = "comparison"
    /\ LET successful_collectors ==
               Cardinality({i \in DOMAIN collector_results : collector_results[i].success})
           comparison_success == outcome = "exit0"
       IN IF successful_collectors > 0
          THEN /\ comparison' = <<[foundations_analyzed |->
                                      IF outcome = "timeout" THEN 0
                                      ELSE Cardinality(load_foundation_results(files, cwd)),
                                   success |-> comparison_success]>>
               /\ exit_code' = IF comparison_success THEN 0 ELSE 1
               /\ console' = console \cup (IF comparison_success THEN {"summary"}
                                            ELSE {"comparison_failed"})
          ELSE /\ exit_code' = 1
               /\ console' = console \cup {"all_collectors_failed"}
               /\ UNCHANGED comparison
    /\ pc' = "done"
    /\ UNCHANGED <<error, files, collector_results, notFullAnalysis>>

(* ---------------------------------------------------------------------- *)
(* wikipedia_ai_discussions_analyzer.py: extract_discussion_threads        *)
(* ---------------------------------------------------------------------- *)
\* most comments of a section in the model
MaxComments == 4

\* a comment: longer than 50 characters or not, with an AI keyword or not
CommentKinds == {"long_ai", "short_ai", "long_other"}
\* a section body: comments separated by user signatures
SectionBodies == SeqsUpTo(CommentKinds, MaxComments) \ {<<>>}

\* re.split(signature_pattern, section_content): the pattern has one group,
\* so the list alternates comment, timestamp, comment, ..., comment
split_signatures(body) ==
    [i \in 1..(2 * Len(body) - 1) |->
        IF i % 2 = 1 THEN body[(i + 1) \div 2] ELSE "timestamp"]

\* range(0, len(comments) - 2, 3), as positions counted from 1
RangeBy3(len) == {i \in 1..len : (i - 1) % 3 = 0 /\ i - 1 < len - 2}

\* extract_discussion_threads: a thread for every examined element that is
\* longer than 50 characters and holds a keyword; part is its position in
\* the split list
extract_discussion_threads(body) ==
    LET comments == split_signatures(body)
        kept == {i \in RangeBy3(Len(comments)) : comments[i] = "long_ai"}
        order == SetToSeq(kept)
    IN [k \in 1..Len(order) |-> [part |-> order[k], estimated_length |-> "long"]]

\* extract_ai_discussions hands a section body to extract_discussion_threads
extract_discussion_threads_call ==
    /\ script = "threads" /\ pc = "call"
    /\ out' = Append(out, extract_discussion_threads(text))
    /\ pc' = "done"
    /\ UNCHANGED notText

(* ---------------------------------------------------------------------- *)
(* wikipedia_ai_governance_analyzer.py: categorize_document                *)
(* ---------------------------------------------------------------------- *)
\* most categories of a page
MaxCategories == 1

\* the words the branches look for in the lower-cased title; "process"
\* stands for process/procedure, "how to" for how to/howto, "information"
\* for information/info/about, "discussion" for discussion/talk/rfc
TitleTerms == {"policy", "guideline", "essay", "process", "wikiproject",
               "how to", "information", "discussion"}
\* a category name, as the set of the words of the first three branches
\* that it contains
CategoryNames == {{}, {"policy"}, {"guideline"}, {"essay"}}
\* a document: the terms its title contains and its category names
\* (no categories also stands for page_content = None)
PageDocuments == [title : SUBSET TitleTerms,
                  categories : SeqsUpTo(CategoryNames, MaxCategories)]

\* any(word in title_lower or word in cat for cat in category_names)
AnyCategory(word, doc) ==
    \E i \in DOMAIN doc.categories :
        word \in doc.title \/ word \in doc.categories[i]

\* lines 195-224
categorize_document(doc) ==
    IF AnyCategory("policy", doc) THEN "policies"
    ELSE IF AnyCategory("guideline", doc) THEN "guidelines"
    ELSE IF AnyCategory("essay", doc) THEN "essays"
    ELSE IF "process" \in doc.title THEN "process_pages"
    ELSE IF "wikiproject" \in doc.title THEN "wiki_projects"
    ELSE IF "how to" \in doc.title THEN "how_to_pages"
    ELSE IF \E term \in {doc.title} : "information" \in doc.title
         THEN "information_pages"
    ELSE IF "discussion" \in doc.title THEN "community_discussions"
    ELSE "supplements"

\* analyze_ai_governance_content categorises one page
categorize_document_call ==
    /\ script = "categorize" /\ pc = "call"
    /\ out' = Append(out, categorize_document(text))
    /\ pc' = "done"
    /\ UNCHANGED notText

(* ---------------------------------------------------------------------- *)
(* wikipedia_ai_enforcement_targeted_analyzer.py: collect_articles         *)
(* ---------------------------------------------------------------------- *)
\* most links of the project page, and most matching recent changes
MaxLinks == 2
\* the max_articles argument of collect_articles
MaxArticles == 2

\* a page title: its namespace prefix ("" in the main namespace) and name
LinkTitles == [ns : {"", "Talk", "Wikipedia"}, name : {"Foo"}]
               \cup [ns : {""}, name : {"Bar"}]
\* titles of main-namespace recent changes whose comment holds a phrase
ChangedTitles == [ns : {""}, name : {"Foo", "Bar"}]

notTargeted == <<script, fsVars, orchVars, ecoVars, outVars, scriptVars>>

\* title.replace('Talk:', '')
StripTalk(title) == IF title.ns = "Talk" THEN [title EXCEPT !.ns = ""] ELSE title

RECURSIVE add_wikiproject_links(_, _)
\* lines 167-179: the loop over page['links']
add_wikiproject_links(links, found) ==
    IF links = <<>> THEN found
    ELSE LET title == Head(links)
             wanted == title.ns = "" \/ title.ns = "Talk"
             known == \E i \in DOMAIN found : found[i].title = title
         IN add_wikiproject_links(Tail(links),
                IF wanted /\ ~known
                THEN Append(found, [title |-> StripTalk(title),
                                    found_via |-> "wikiproject_links"])
                ELSE found)

RECURSIVE add_recent_changes(_, _, _)
\* lines 121-136: the loop over the recent changes; found_articles is the
\* local set of the titles this call added
add_recent_changes(changes, found_articles, found) ==
    IF changes = <<>> THEN found
    ELSE LET article_title == Head(changes)
         IN IF article_title \in found_articles
            THEN add_recent_changes(Tail(changes), found_articles, found)
            ELSE add_recent_changes(Tail(changes),
                     found_articles \cup {article_title},
                     Append(found, [title |-> article_title,
                                    found_via |-> "recent_changes"]))

\* line 378: self.articles_found[:max_articles]
collect_articles_cut(found) == Take(found, MaxArticles)

\* collect_articles, method 1: get_wikiproject_ai_cleanup_articles
get_wikiproject_ai_cleanup_articles(ok, links) ==
    /\ script = "targeted" /\ pc = "wikiproject_links"
    /\ ~ok => links = <<>>
    /\ Request(ok, TRUE)
    /\ articles_found' = add_wikiproject_links(links, articles_found)
    /\ pc' = "recent_changes"
    /\ UNCHANGED notTargeted

\* collect_articles, method 2 and the cut: search_recent_changes_for_ai,
\* then self.articles_found[:max_articles]
search_recent_changes_for_ai(ok, changes) ==
    /\ script = "targeted" /\ pc = "recent_changes"
    /\ ~ok => changes = <<>>
    /\ Request(ok, TRUE)
    /\ articles_found' =
          collect_articles_cut(add_recent_changes(changes, {}, articles_found))
    /\ pc' = "done"
    /\ UNCHANGED notTargeted

\* the texts each script is run on
InputsOf(s) ==
    CASE s \in {"talk_page", "governance_text", "discussion_text",
                 "wikiproject_text"} -> Documents
      [] s = "afd_text" -> AfdTexts
      [] s = "threads" -> SectionBodies
      [] s = "categorize" -> PageDocuments
      [] OTHER -> {<<>>}

(* ---------------------------------------------------------------------- *)
Scripts == {"policy", "mozilla", "wikiproject", "afd", "discussions",
            "governance", "enforcement", "eclipse", "apache",
            "talk_page", "governance_text", "discussion_text", "afd_text",
            "wikiproject_text", "ranking", "save_runs", "fsf", "osi",
            "full_analysis", "threads", "targeted",
            "categorize"}

\* where each script starts
StartPc(s) ==
    CASE s = "policy" -> "search"
      [] s = "mozilla" -> "fetch_repos"
      [] s = "wikiproject" -> "paginate"
      [] s = "afd" -> "afd_search"
      [] s \in {"discussions", "governance"} -> "pages"
      [] s = "enforcement" -> "collect"
      [] s = "eclipse" -> "get_all_projects"
      [] s = "apache" -> "get_apache_projects"
      [] s \in {"talk_page", "governance_text", "discussion_text", "afd_text",
                 "wikiproject_text", "threads", "categorize"} -> "call"
      [] s = "ranking" -> "count"
      [] s = "save_runs" -> "run"
      [] s \in {"fsf", "osi"} -> "save"
      [] s = "full_analysis" -> "dependencies"
      [] s = "targeted" -> "wikiproject_links"

Init ==
    /\ script \in Scripts
    /\ pc = StartPc(script)
    /\ calls = 0 /\ okcalls = 0 /\ slept = FALSE /\ unslept = FALSE
    /\ console = {}
    /\ exit_code = -1
    /\ error = "none"
    /\ batch_num = 0 /\ rccontinue = 0
    /\ all_policies = <<>> /\ ai_policies = <<>>
    /\ total_edits_checked = 0 /\ edits_with_policies = 0 /\ rc_log = <<>>
    /\ page = 1 /\ repos = <<>>
    /\ batch_count = 0 /\ continue_token = 0 /\ wikiprojects = <<>>
    /\ pop_i = 0 /\ top_projects = <<>>
    /\ wp_i = 1 /\ wp_step = "main_page" /\ subpages = <<>>
    /\ analysis = <<>> /\ wikiproject_data = <<>>
    /\ kw_i = 1 /\ seen_titles = {} /\ all_discussions = <<>>
    /\ afd_i = 1 /\ all_analyses = <<>> /\ search_log = <<>>
    /\ dp_i = 1 /\ discussion_data = <<>> /\ ai_proposals = 0
    /\ gp_i = 1 /\ governance_pages_data = <<>>
    /\ cs_i = 1 /\ article_list = <<>> /\ art_i = 1 /\ art_step = "edits"
    /\ edit_data = <<>> /\ talk_data = <<>>
    /\ projects_data = <<>> /\ task = <<>> /\ result = <<>>
    /\ projects = <<>> /\ stats = [total_projects |-> 0]
    /\ text \in InputsOf(script)
    /\ out = <<>>
    /\ files = <<>> /\ runs = <<>>
    /\ cwd \in StartDirs(script)
    /\ collector_results = <<>> /\ comparison = <<>>
    /\ gnu_projects = <<>> /\ affiliates = <<>> /\ licenses = <<>> /\ summary = <<>>
    /\ articles_found = <<>>

Next ==
    \/ \E resp \in RcResponses : search_edit_summaries_2025_batch(resp)
    \/ search_edit_summaries_2025_ceiling
    \/ policy_print_results
    \/ \E writeOk \in BOOLEAN : policy_save(writeOk)
    \/ \E kind \in GhResponses : get_github_org_repos_page(kind)
    \/ \E resp \in ApResponses : get_popular_wikiprojects_batch(resp)
    \/ \E kind \in {"exception", "no_pages", "ok"}, watched \in SUBSET (1..MaxCalls) :
          get_popular_wikiprojects_popularity(kind, watched)
    \/ get_popular_wikiprojects_return
    \/ \E res \in PageResults : analyze_wikiproject_main_page(res)
    \/ \E ok \in BOOLEAN, list \in SeqsUpTo(SubpageKinds, MaxSubpages) :
          analyze_wikiproject_subpages(ok, list)
    \/ analyze_wikiproject_skip_subpage
    \/ \E res \in PageResults : analyze_wikiproject_subpage(res)
    \/ analyze_all_wikiprojects_append
    \/ wikiproject_generate_report
    \/ \E writeOk \in BOOLEAN : wikiproject_save_results(writeOk)
    \/ \E kind \in {"exception", "ok"}, results \in SearchResults :
          get_afd_discussions_ai_search(kind, results)
    \/ get_afd_discussions_ai_return
    \/ \E res \in PageResults : afd_main_fetch(res)
    \/ afd_main_statistics
    \/ \E writeOk \in BOOLEAN : afd_main_save(writeOk)
    \/ \E res \in PageResults : analyze_ai_discussions_page(res)
    \/ \E res \in PageResults : search_recent_ai_proposals(res)
    \/ \E writeOk \in BOOLEAN : discussions_save(writeOk)
    \/ discussions_summary
    \/ \E ok \in BOOLEAN : analyze_governance_pages_page(ok)
    \/ \E writeOk \in BOOLEAN : governance_save(writeOk)
    \/ governance_summary
    \/ \E n \in 0..MaxPerCategory : collect_sample_request(n)
    \/ \E ok \in BOOLEAN, found \in BOOLEAN : analyze_all_articles_edits(ok, found)
    \/ \E ok \in BOOLEAN, found \in BOOLEAN : analyze_all_articles_talk(ok, found)
    \/ enforcement_generate_statistics
    \/ \E writeOk \in BOOLEAN : enforcement_save_results(writeOk)
    \/ \E n \in 0..NumProjects : eclipse_get_all_projects(n)
    \/ \E t \in DOMAIN task : analyze_project_details_sleep(t)
    \/ \E t \in DOMAIN task, info \in {NoInfo} \cup ProjectInfos :
          analyze_project_details(t, info)
    \/ \E t \in DOMAIN task : analyze_all_projects_collect(t)
    \/ \E writeOk \in BOOLEAN : collector_save_results(writeOk)
    \/ collector_print_summary
    \/ \E n \in 0..NumProjects : get_apache_projects(n)
    \/ collect_apache_projects
    \/ analyze_talk_page(text)
    \/ \E order \in KeywordOrders : extract_ai_references_run(order)
    \/ extract_ai_discussions_call
    \/ \E order \in PolicyOrders : analyze_afd_text_run(order)
    \/ analyze_wikiproject_text
    \/ \E policy \in CitedPolicies : categorize_count(policy)
    \/ \E n \in 1..(Cardinality(CitedPolicies) + 1) : categorize_most_common(n)
    \/ \E saver \in Savers, now \in 1..MaxClock : save_results_run(saver, now)
    \/ \E savannahOk \in BOOLEAN, fsdOk \in BOOLEAN, writeOk \in BOOLEAN :
          fsf_save_results(savannahOk, fsdOk, writeOk)
    \/ fsf_print_summary
    \/ \E writeOk \in BOOLEAN : osi_save_results(writeOk)
    \/ osi_print_summary
    \/ \E installOk \in BOOLEAN : main_check_dependencies(installOk)
    \/ \E present \in BOOLEAN, outcome \in SubprocessOutcomes :
          run_all_collectors_next(present, outcome)
    \/ \E outcome \in {"exit0", "nonzero", "timeout"} : main_generate_comparison(outcome)
    \/ extract_discussion_threads_call
    \/ categorize_document_call
    \/ \E ok \in BOOLEAN, links \in SeqsUpTo(LinkTitles, MaxLinks) :
          get_wikiproject_ai_cleanup_articles(ok, links)
    \/ \E ok \in BOOLEAN, changes \in SeqsUpTo(ChangedTitles, MaxLinks) :
          search_recent_changes_for_ai(ok, changes)

Spec == Init /\ [][Next]_vars

(* ---------------------------------------------------------------------- *)
(* Properties                                                              *)
(* ---------------------------------------------------------------------- *)
IsPrefix(s, t) == Len(s) <= Len(t) /\ SubSeq(t, 1, Len(s)) = s

\* main() is over, normally or not
Finished == pc \in {"done", "crashed", "returned"}

\* C1: every pagination loop stops after at most max_batches calls to the
\* fetcher, whatever the remote API answers: the batch counter of
\* search_edit_summaries_2025, the batch counter of get_popular_wikiprojects
\* and the requests of get_github_org_repos never exceed the ceiling.
C1_CeilingEnforced ==
    /\ script = "policy" => batch_num <= MaxBatches
    /\ script = "wikiproject" => batch_count <= MaxBatches
    /\ script = "mozilla" => calls <= MaxBatches

\* the projects in input order, as a sequential run appends them
SequentialProjects == SelectSeq(result, LAMBDA r : r.ok)

\* C2: once the pool has drained, self.projects holds one entry per project
\* that was analysed, and the statistics generate_statistics computes from it
\* (with the two most_common(10) rankings) are those of a sequential run over
\* the same projects in input order.
C2_PoolMatchesSequential ==
    (script = "eclipse" /\ pc \in {"save", "summary", "done"}) =>
        /\ Len(projects) = Len(SequentialProjects)
        /\ generate_statistics(projects) = generate_statistics(SequentialProjects)

\* C3: print_results never raises a division by zero; with no policy
\* citation at all (edits retrieved or not) it returns normally.
C3_NoDivisionByZero ==
    (script = "policy" /\ CounterTotal(all_policies) = 0) =>
        error # "ZeroDivisionError"

\* C4: when every request of the Apache collector, the WikiProject analyzer
\* or the AfD analyzer has failed, the script still ends by normal
\* completion: no exception escapes main() and none is reported as
\* "Analysis failed".
C4_AllFailedStillCompletes ==
    (script \in {"apache", "wikiproject", "afd"} /\ Finished /\ okcalls = 0) =>
        /\ pc = "done"
        /\ error = "none"
        /\ "analysis_failed" \notin console

\* C5: when a request of a multi-request collection fails, the function
\* still returns what the earlier requests accumulated: the counters of
\* search_edit_summaries_2025, the repos of get_github_org_repos, and a
\* non-empty list from get_popular_wikiprojects when WikiProjects were found.
C5_EarlierDataReturned ==
    [][/\ (script = "policy" /\ pc = "search" /\ pc' = "print") =>
            /\ total_edits_checked' >= total_edits_checked
            /\ \A k \in PolicyLabels :
                 CounterCount(all_policies, k)' >= CounterCount(all_policies, k)
       /\ (script = "mozilla" /\ pc = "fetch_repos" /\ pc' = "returned") =>
            repos' = repos
       /\ (script = "wikiproject" /\ pc \in {"paginate", "popularity"}
             /\ pc' \in {"analyze", "report"} /\ wikiprojects # <<>>) =>
            top_projects' # <<>>]_vars

\* C6: in the keyword loop of get_afd_discussions_ai, the page loop of
\* analyze_ai_discussions and the article loop of analyze_all_articles, every
\* pass issues one request and moves to the next item whether or not the
\* request failed; a pass that yields no data leaves the collected results
\* unchanged, a pass with data only appends; and the loop is left only after
\* every item has been requested exactly once.
C6_LoopContinuesAfterFailure ==
    [][/\ (script = "afd" /\ pc = "afd_search") =>
            IF kw_i <= NumKeywords
            THEN /\ calls' = calls + 1 /\ calls = kw_i - 1
                 /\ kw_i' = kw_i + 1
                 /\ pc' = "afd_search"
                 /\ IsPrefix(all_discussions, all_discussions')
                 /\ okcalls' = okcalls => all_discussions' = all_discussions
            ELSE calls = NumKeywords /\ pc' = "afd_fetch"
       /\ (script = "discussions" /\ pc = "pages") =>
            /\ calls' = calls + 1 /\ calls = dp_i - 1
            /\ dp_i' = dp_i + 1
            /\ IsPrefix(discussion_data, discussion_data')
            /\ okcalls' = okcalls => discussion_data' = discussion_data
            /\ pc' # "pages" => calls' = NumDiscussionPages
       /\ (script = "enforcement" /\ pc = "analyze") =>
            IF art_i <= Len(article_list)
            THEN /\ calls' = calls + 1
                 /\ calls = SampleRequests + 2 * (art_i - 1)
                            + (IF art_step = "talk" THEN 1 ELSE 0)
                 /\ art_i' = IF art_step = "talk" THEN art_i + 1 ELSE art_i
                 /\ art_step' = IF art_step = "talk" THEN "edits" ELSE "talk"
                 /\ pc' = "analyze"
                 /\ IsPrefix(edit_data, edit_data') /\ IsPrefix(talk_data, talk_data')
                 /\ okcalls' = okcalls => (edit_data' = edit_data /\ talk_data' = talk_data)
            ELSE calls = SampleRequests + 2 * Len(article_list)]_vars

\* C6, witness: the keyword loop is over, its first request raised (no sleep
\* followed it) and a later keyword still contributed results
C6_Witness ==
    /\ script = "afd" /\ pc = "afd_search" /\ kw_i > NumKeywords
    /\ unslept
    /\ all_discussions # <<>> /\ all_discussions[1].keyword > 1

\* C7: a sleep elapses between any two consecutive outbound requests of a
\* run, on every path.
C7_DelayBetweenRequests == ~unslept

\* C8: a collector process exits with code 0 only when its run completed;
\* when an exception reached main() the error and its traceback are printed,
\* the exit code is not 0 and run_collector reports the collector as failed.
C8_ExitCodeReflectsFailure ==
    (script \in {"eclipse", "apache"} /\ Finished) =>
        /\ exit_code = 0 => error = "none"
        /\ error # "none" =>
              /\ "traceback" \in console
              /\ ~run_collector(TRUE, FALSE, exit_code)

\* C9: when the write of the output file fails, the run still prints its
\* final summary from the results in memory and reports the failure.
C9_WriteFailureKeepsSummary ==
    (script \in {"discussions", "governance", "afd"} /\ error = "OSError") =>
        /\ "summary" \in console
        /\ "traceback" \in console \/ "analysis_failed" \in console

\* the results the coordinating thread has taken from completed futures
Collected == {t \in DOMAIN task : task[t] = "collected" /\ result[t].ok}

\* C10: self.projects and self.stats change only in a step of the
\* coordinating thread that takes exactly one completed future, appends its
\* result and counts it; no append or increment is lost: both agree with the
\* number of results collected so far.
C10_OnlyCoordinatorMutates ==
    /\ [](script = "eclipse" =>
            /\ Len(projects) = Cardinality(Collected)
            /\ stats.total_projects = Cardinality(Collected))
    /\ [][(script = "eclipse" /\ (projects' # projects \/ stats' # stats)) =>
            \E t \in DOMAIN task :
                /\ task[t] = "done" /\ task'[t] = "collected"
                /\ \A u \in DOMAIN task : u # t => task'[u] = task[u]
                /\ result[t].ok
                /\ projects' = Append(projects, result[t])
                /\ stats'.total_projects = stats.total_projects + 1]_vars

\* C10, witness: two workers completed out of input order and both results
\* were collected
C10_Witness ==
    /\ script = "eclipse" /\ pc = "save"
    /\ Len(projects) = 2 /\ Cardinality(Collected) = 2
    /\ result[1] # result[2]
    /\ projects[1] = result[2]

\* the result of the one call of a text function, once it has returned
Returned == pc = "done" /\ Len(out) >= 1

\* a heading line as the specification describes it: a run of at least two
\* '=', a title that is not empty after trimming, a closing run of '='
IsHeadingLine(line) ==
    LET n == RunOf(line, {"="})
        rest == From(line, n + 1)
        m == RunOf(rest, NotEq)
        after == From(rest, m + 1)
        k == RunOf(after, {"="})
        tail == From(after, k + 1)
    IN /\ n >= 2 /\ k >= 2
       /\ Strip(SubSeq(rest, 1, m)) # <<>>
       /\ RunOf(tail, {" ", "\n"}) = Len(tail)

\* the lines of the text under analysis
LinesOfText == SplitLines(text, <<>>, <<>>)

NoHeadingLine == \A i \in 1..Len(LinesOfText) : ~IsHeadingLine(LinesOfText[i])

\* C12: parse_talk_sections emits no section whose body is empty after
\* trimming; a document made only of heading lines yields no section.
C12_NoEmptySection ==
    (script = "talk_page" /\ Returned) =>
        \A i \in 1..Len(out[1].sections) : Strip(out[1].sections[i].content) # <<>>

\* C13: a document without heading line is returned as exactly one section,
\* titled "Introduction", whose body is the whole document (with or without
\* the newline that ends its last line).
C13_NoHeadingOneSection ==
    (script = "talk_page" /\ Returned /\ NoHeadingLine) =>
        /\ Len(out[1].sections) = 1
        /\ out[1].sections[1].title = Introduction
        /\ out[1].sections[1].content \in {text, text \o <<"\n">>}

\* the section titles a call reported, whatever the function
TitlesReported(r) ==
    CASE script = "talk_page" ->
            {r.sections[i].title : i \in 1..Len(r.sections)}
            \cup {r.ai_discussions[i].section_title : i \in 1..Len(r.ai_discussions)}
      [] script = "governance_text" ->
            {r.ai_mentions[i].section : i \in 1..Len(r.ai_mentions)}
            \cup {r.ai_sections[i].section_title : i \in 1..Len(r.ai_sections)}
      [] script = "discussion_text" -> {r[i].title : i \in 1..Len(r)}
      [] OTHER -> {}

\* the stripped title of a heading line
HeadingTitle(line) ==
    LET rest == From(line, RunOf(line, {"="}) + 1)
    IN Strip(SubSeq(rest, 1, RunOf(rest, NotEq)))

\* C14: a keyword match belongs to the section whose heading most recently
\* precedes it, also when the first heading is the first line of the
\* document: then nothing is reported under "Introduction".
C14_MatchInPrecedingSection ==
    (script \in {"talk_page", "governance_text"} /\ Returned
        /\ IsHeadingLine(LinesOfText[1])) =>
        Introduction \notin TitlesReported(out[1])

\* C15: the section splitters recognise a line as a heading only if it is a
\* run of at least two '=', a title that is not empty after trimming and a
\* closing run of '=': every section title reported is "Introduction" or
\* the title of such a line of the document.
C15_HeadingsWellFormed ==
    (script \in {"talk_page", "governance_text", "discussion_text"} /\ Returned) =>
        TitlesReported(out[1]) \subseteq
            {Introduction} \cup
            {HeadingTitle(LinesOfText[i]) :
                i \in {j \in 1..Len(LinesOfText) : IsHeadingLine(LinesOfText[j])}}

\* positions of the text where a keyword stands as a whole word
WholeWordKeywords ==
    {i \in 1..Len(text) :
        /\ Lower(text[i]) \in {"a", "b"}
        /\ \A j \in {i - 1, i + 1} \cap (1..Len(text)) : ~IsWord(text[j])}

\* C11: the number of matches a scan reports is the sum over the keywords
\* of the occurrences of each keyword in the text: the count of every
\* indicator of analyze_afd_text is the number of its occurrences, however
\* close they lie, and count_ai_references and total_ai_references are the
\* number of whole-word keyword occurrences.
C11_CountEqualsOccurrences ==
    /\ (script = "afd_text" /\ Returned /\ ~out[1].is_none) =>
            \A i \in 1..Len(out[1].detection_indicators) :
                out[1].detection_indicators[i].count =
                    Cardinality(Occurrences(text, out[1].detection_indicators[i].indicator))
    /\ (script = "wikiproject_text" /\ Returned) =>
            out[1].ai_count = Cardinality(WholeWordKeywords)
    /\ (script = "governance_text" /\ Returned) =>
            out[1].total_ai_references = Cardinality(WholeWordKeywords)

\* C16: the context captured for a match spans at most the radius on each
\* side of the match and holds no newline; the recorded position lies in
\* the scanned text.
C16_ContextWindow ==
    /\ (script = "governance_text" /\ Returned) =>
            \A i \in 1..Len(out[1].ai_mentions) :
                LET m == out[1].ai_mentions[i]
                IN /\ Len(m.context) <= 2 * Radius + 1
                   /\ \A j \in 1..Len(m.context) : m.context[j] # "\n"
                   /\ m.position \in 0..(Len(text) - 1)
    /\ (script = "afd_text" /\ Returned /\ ~out[1].is_none) =>
            \A i \in 1..Len(out[1].detection_indicators) :
                LET ex == out[1].detection_indicators[i].examples
                IN \A e \in 1..Len(ex) :
                     /\ Len(ex[e]) <= 2 * Radius + 1
                     /\ \A j \in 1..Len(ex[e]) : ex[e][j] # "\n"

\* C17: scanning an empty text returns an empty sequence of matches, never
\* a null value or an error.
C17_EmptyTextEmptyResult ==
    (Returned /\ text = <<>>) =>
        CASE script = "afd_text" ->
                ~out[1].is_none /\ out[1].detection_indicators = <<>>
          [] script = "governance_text" -> out[1].ai_mentions = <<>>
          [] script = "wikiproject_text" -> out[1].ai_sections = <<>>
          [] OTHER -> TRUE

\* C18: two runs of analyze_afd_text, or of extract_ai_references, on the
\* same text return the same output, policies_cited and unique_ai_terms
\* included.
C18_TwoRunsAgree ==
    (script \in {"afd_text", "governance_text"} /\ Len(out) = 2) =>
        out[1] = out[2]

\* the titles the searches of get_afd_discussions_ai returned so far
TitlesOf(results) == {results[i] : i \in DOMAIN results}
FoundTitles == UNION {TitlesOf(search_log[k]) : k \in DOMAIN search_log}
\* the first keyword (by position in the keyword list) whose search returned t
FirstKeyword(t) ==
    CHOOSE k \in DOMAIN search_log :
        /\ t \in TitlesOf(search_log[k])
        /\ \A j \in 1..(k - 1) : t \notin TitlesOf(search_log[j])

\* C20: the list get_afd_discussions_ai builds has no two entries with the
\* same title, holds every title some keyword's search returned exactly once,
\* and each entry carries the first keyword whose search returned its title.
C20_OneEntryPerTitle ==
    script = "afd" =>
        /\ \A i, j \in DOMAIN all_discussions :
              all_discussions[i].title = all_discussions[j].title => i = j
        /\ {all_discussions[i].title : i \in DOMAIN all_discussions} = FoundTitles
        /\ \A i \in DOMAIN all_discussions :
              all_discussions[i].keyword = FirstKeyword(all_discussions[i].title)

\* the function has returned, and a title two searches both returned is in
\* the list once, under the earlier keyword
C20_Witness ==
    /\ script = "afd" /\ pc = "afd_fetch"
    /\ Len(search_log) = NumKeywords
    /\ \E t \in TitlesOf(search_log[1]) \cap TitlesOf(search_log[2]) :
          /\ Cardinality({i \in DOMAIN all_discussions :
                            all_discussions[i].title = t}) = 1
          /\ \E i \in DOMAIN all_discussions :
                all_discussions[i] = [title |-> t, keyword |-> 1]

\* where a key was first counted: its position in the table
FirstSeen(c, key) == CHOOSE i \in DOMAIN c : c[i].k = key

\* C19: a top-N query returns the N entries with the highest counts (all of
\* them when there are fewer than N), in non-increasing order of count, and
\* entries with equal counts in the order they were first seen.
C19_TopNStable ==
    (script = "ranking" /\ pc = "done") =>
        LET top == out[1].top
            n == out[1].n
        IN /\ Len(top) = Min(n, Len(all_policies))
           /\ \A i \in DOMAIN top : \E j \in DOMAIN all_policies : all_policies[j] = top[i]
           /\ \A i, j \in DOMAIN top : top[i].k = top[j].k => i = j
           /\ \A i, j \in DOMAIN top :
                 i < j => \/ top[i].n > top[j].n
                          \/ /\ top[i].n = top[j].n
                             /\ FirstSeen(all_policies, top[i].k)
                                  < FirstSeen(all_policies, top[j].k)
           /\ \A j \in DOMAIN all_policies :
                 (\A i \in DOMAIN top : top[i] # all_policies[j]) =>
                     \A i \in DOMAIN top :
                         \/ top[i].n > all_policies[j].n
                         \/ /\ top[i].n = all_policies[j].n
                            /\ FirstSeen(all_policies, top[i].k) < j

\* the table {a: 5, b: 5, c: 3} with a seen before b: top(2) is [a, b]
C19_Witness ==
    /\ script = "ranking" /\ pc = "done"
    /\ all_policies = <<[k |-> "a", n |-> 5], [k |-> "b", n |-> 5], [k |-> "c", n |-> 3]>>
    /\ out[1].n = 2
    /\ out[1].top = <<[k |-> "a", n |-> 5], [k |-> "b", n |-> 5]>>

\* a response after which the loop asks for the next page
Continuing(r) == r.kind = "ok" /\ r.n > 0 /\ r.cont # 0

RECURSIVE EditsReceived(_)
\* the edits the responses carried
EditsReceived(log) ==
    IF log = <<>> THEN 0
    ELSE (IF Head(log).kind = "ok" THEN Head(log).n ELSE 0) + EditsReceived(Tail(log))

\* C21: in search_edit_summaries_2025 a response without continuation
\* token, a response with an empty page and the batch ceiling end the loop
\* normally: no request follows a response that is not continuing, request
\* k+1 sends the token response k returned (the first sends none), at most
\* max_batches requests are issued, and the function returns, without an
\* exception, the counters accumulated over all the responses.
C21_StopConditions ==
    script = "policy" =>
        /\ Len(rc_log) = calls /\ calls <= MaxBatches
        /\ \A k \in 1..Len(rc_log) :
              /\ rc_log[k].sent = (IF k = 1 THEN 0 ELSE rc_log[k - 1].cont)
              /\ k < Len(rc_log) => Continuing(rc_log[k])
        /\ pc = "search" => (rc_log = <<>> \/ Continuing(rc_log[Len(rc_log)]))
        /\ pc = "print" =>
              /\ error = "none"
              /\ total_edits_checked = EditsReceived(rc_log)
              /\ batch_num = Len(rc_log)

\* the function returned after a second request that sent the first
\* response's token and whose response carried edits and no token
C21_Witness ==
    /\ script = "policy" /\ pc = "print"
    /\ Len(rc_log) = 2
    /\ rc_log[1].cont = 2 /\ rc_log[2].sent = 2
    /\ rc_log[2].kind = "ok" /\ rc_log[2].n > 0 /\ rc_log[2].cont = 0
    /\ total_edits_checked = 2

\* C22: output file names carry the generation timestamp, so two runs of
\* the same script never write the same path and the file of the earlier
\* run is still there after the later run.
C22_RunsNeverCollide ==
    script = "save_runs" =>
        \A i, j \in DOMAIN runs :
            (i < j /\ runs[i].script = runs[j].script) =>
                /\ runs[i].path # runs[j].path
                /\ files[runs[i].path].run = i

\* the results file a collector of the ecosystem scripts wrote
SavedResults == files[Resolve(cwd, json_filename(script))]

\* C23: in the FSF and OSI collectors the statistics saved in the results
\* file are those of the data saved with them: total_gnu_projects is the
\* number of gnu_projects entries, total_affiliates_analyzed and
\* total_licenses_analyzed are the numbers of affiliates and licenses in the
\* file, and print_summary shows the same values.
C23_SavedStatisticsMatchData ==
    /\ (script = "fsf" /\ pc = "done" /\ error = "none") =>
          /\ "total_gnu_projects" \in DOMAIN SavedResults.statistics
          /\ SavedResults.statistics.total_gnu_projects = Len(SavedResults.gnu_projects)
          /\ SavedResults.statistics.total_gnu_projects = summary.total_gnu_projects
    /\ (script = "osi" /\ pc = "done" /\ error = "none") =>
          /\ SavedResults.statistics.total_affiliates_analyzed
                = Len(SavedResults.affiliate_organizations)
          /\ SavedResults.statistics.total_licenses_analyzed
                = Len(SavedResults.major_licenses)
          /\ SavedResults.statistics = summary

\* the collectors run_collector reported as successful
Successful == {i \in DOMAIN collector_results : collector_results[i].success}

\* C24: run_full_analysis runs the six collectors once each in the listed
\* order, a collector that fails, times out or is absent does not keep the
\* later ones from running, the comparison is started only after all six
\* and only if one succeeded, and main returns 0 exactly when the
\* dependency check passed, a collector succeeded and the comparison
\* succeeded.
C24_AllCollectorsThenComparison ==
    script = "full_analysis" =>
        /\ Len(collector_results) <= Len(collectors)
        /\ \A i \in DOMAIN collector_results :
              collector_results[i].collector = collectors[i]
        /\ pc = "comparison" => Len(collector_results) = Len(collectors)
        /\ comparison # <<>> =>
              (Len(collector_results) = Len(collectors) /\ Successful # {})
        /\ pc = "done" =>
              /\ "dependency_check_failed" \notin console =>
                    Len(collector_results) = Len(collectors)
              /\ exit_code = 0 <=>
                    /\ "dependency_check_failed" \notin console
                    /\ Successful # {}
                    /\ comparison # <<>> /\ comparison[1].success

\* main returned 0 although the first collector was absent, the second
\* timed out or failed, and only the last one succeeded
C24_Witness ==
    /\ script = "full_analysis" /\ pc = "done" /\ exit_code = 0
    /\ Successful = {Len(collectors)}

\* C25: the comparison step loads the results of every collector that
\* run_full_analysis reported as successful: foundations_analyzed is the
\* number of successful collectors.
C25_ComparisonLoadsResults ==
    (script = "full_analysis" /\ pc = "done" /\ comparison # <<>>
       /\ comparison[1].success) =>
        comparison[1].foundations_analyzed = Cardinality(Successful)

\* C26: extract_discussion_threads examines every comment of the section:
\* each comment longer than 50 characters that holds an AI keyword yields
\* exactly one thread, whether it is the first comment, a middle one or the
\* text after the last signature.
C26_EveryCommentExamined ==
    (script = "threads" /\ pc = "done") =>
        \A j \in DOMAIN text :
            text[j] = "long_ai" =>
                Cardinality({k \in DOMAIN out[1] : out[1][k].part = 2 * j - 1}) = 1

\* C27: after collect_articles, articles_found holds at most max_articles
\* entries and no two of them have the same title, whatever the project
\* page links and the recent changes are.
C27_ArticlesUnique ==
    (script = "targeted" /\ pc = "done") =>
        /\ Len(articles_found) <= MaxArticles
        /\ \A i, j \in DOMAIN articles_found :
              articles_found[i].title = articles_found[j].title => i = j

\* the counters of search_edit_summaries_2025 did not go down in this step
CountersGrow ==
    /\ total_edits_checked' >= total_edits_checked
    /\ edits_with_policies' >= edits_with_policies
    /\ batch_num' >= batch_num
    /\ \A label \in PolicyLabels :
          /\ CounterCount(all_policies', label) >= CounterCount(all_policies, label)
          /\ CounterCount(ai_policies', label) >= CounterCount(ai_policies, label)

\* C28: throughout search_edit_summaries_2025 and in its result no count
\* decreases, every label has ai_policies[label] <= all_policies[label],
\* edits_with_policies <= total_edits_checked, and batches_processed is at
\* most max_batches and is the number of requests issued.
C28_CountersConsistent ==
    /\ [](script = "policy" =>
            /\ \A label \in PolicyLabels :
                  CounterCount(ai_policies, label) <= CounterCount(all_policies, label)
            /\ edits_with_policies <= total_edits_checked
            /\ batch_num <= MaxBatches
            /\ batch_num = calls)
    /\ [][script = "policy" => CountersGrow]_vars

\* the function returned after two requests; one edit cited
\* Wikipedia:AI-generated, which two AI patterns match, and one edit cited
\* nothing
C28_Witness ==
    /\ script = "policy" /\ pc = "print"
    /\ batch_num = 2
    /\ CounterCount(all_policies, "WIKIPEDIA:AI-GENERATED") = 1
    /\ CounterCount(ai_policies, "WIKIPEDIA:AI-GENERATED") = 1
    /\ edits_with_policies = 1 /\ total_edits_checked = 2

\* the governance categories in the order of precedence, and the title
\* term of each
Precedence == <<"policies", "guidelines", "essays", "process_pages",
                "wiki_projects", "how_to_pages", "information_pages",
                "community_discussions">>
TermOf == <<"policy", "guideline", "essay", "process", "wikiproject",
            "how to", "information", "discussion">>

\* the document belongs to the k-th category: its title holds the term or,
\* for the first three, one of its categories does
Belongs(k, doc) ==
    \/ TermOf[k] \in doc.title
    \/ k <= 3 /\ \E i \in DOMAIN doc.categories : TermOf[k] \in doc.categories[i]

\* C29: categorize_document gives every document the first category, in
\* the order policies > guidelines > essays > process_pages > wiki_projects
\* > how_to_pages > information_pages > community_discussions, that it
\* belongs to, and supplements when it belongs to none; a title holding
\* 'policy' ('guideline', 'essay') decides on its own, with or without
\* categories.
C29_CategoryByPrecedence ==
    (script = "categorize" /\ pc = "done") =>
        LET hits == {k \in DOMAIN Precedence : Belongs(k, text)}
        IN out[1] = IF hits = {} THEN "supplements"
                    ELSE Precedence[CHOOSE k \in hits : \A h \in hits : k <= h]

\* C30: the result of extract_ai_references is consistent: every section
\* of ai_sections has a mention of ai_mentions attributed to it, every
\* keyword of its ai_keywords_found has a mention in that section, and
\* ai_found is true exactly when ai_sections is not empty.
C30_ReferencesConsistent ==
    (script = "governance_text" /\ Len(out) >= 1) =>
        LET r == out[1]
            mentioned(title, kws) ==
                \A kw \in kws : \E m \in DOMAIN r.ai_mentions :
                    /\ r.ai_mentions[m].section = title
                    /\ r.ai_mentions[m].keyword = kw
        IN /\ \A i \in DOMAIN r.ai_sections :
                 /\ \E m \in DOMAIN r.ai_mentions :
                        r.ai_mentions[m].section = r.ai_sections[i].section_title
                 /\ mentioned(r.ai_sections[i].section_title,
                              {r.ai_sections[i].ai_keywords_found[j] :
                                  j \in DOMAIN r.ai_sections[i].ai_keywords_found})
           /\ r.ai_found <=> (r.ai_sections # <<>>)
====
